---- MODULE Spec2Model ----
(***************************************************************************)
(* resume_forge: the date helpers of BaseGenerator, the theme tables and   *)
(* the section composition of PDFGenerator and DOCXGenerator, the methods  *)
(* of the renderers called by name, and the convert command of cli.py.     *)
(* The renderers are run on resumes of several sections (Spec), on resumes *)
(* of one section whose entry has its fields present or absent in every    *)
(* combination (SpecEntry) and as two instances side by side (SpecTwo).    *)
(*                                                                         *)
(* A Python str is a sequence of pieces.  The characters of a resume field *)
(* are one piece each ("2","0","2","0","-","0","3"); a literal the code    *)
(* inserts is one piece (" - Present", "<b>").  StrOf flattens a text to a *)
(* TLA+ string, which is how the properties state expected outputs.        *)
(***************************************************************************)
EXTENDS Integers, Sequences, FiniteSets, TLC

\* the generators: the resume handed to them, the health of the output
\* library and the disk, the renderer instances, the directories that exist,
\* the files at the output paths, the documents written so far and the
\* number of generate calls
VARIABLES resume, env, gen, dirs, files, written, ncalls

\* the date helpers: the arguments, the helper applied and its result
VARIABLES dstart, dend, dop, dout

\* a call of a method by name on a renderer: the receiver, the name, the
\* arguments and the outcome
VARIABLES mrecv, mname, margs, mout

\* one run of the convert command
VARIABLES cli

gvars == <<resume, env, gen, dirs, files, written, ncalls>>

dvars == <<dstart, dend, dop, dout>>

mvars == <<mrecv, mname, margs, mout>>

\* what the generators leave alone
ovars == <<dvars, mvars, cli>>

vars == <<gvars, dvars, mvars, cli>>

(***************************************************************************)
(* Bounds                                                                  *)
(***************************************************************************)
\* a date argument is made of at most MaxSegs dash-separated segments
MaxSegs == 3

\* a section list of a resume holds at most MaxEntries entries
MaxEntries == 2

\* at most MaxCalls calls of generate are begun in one behaviour
MaxCalls == 2

(***************************************************************************)
(* Python values                                                           *)
(***************************************************************************)
\* Python's None (a tuple, so that it compares with every str of the model)
None == <<"<None>">>

\* bool(x) for an Optional[str] or a list: None, "" and [] are falsy
Truthy(x) == x # None /\ x # <<>>

RECURSIVE StrOf(_)
StrOf(s) == IF s = <<>> THEN "" ELSE Head(s) \o StrOf(Tail(s))

\* the decimal digits of Unicode (category Nd); Digits[v + 1] holds the
\* characters whose value is v. A character outside printable ASCII is
\* written in its JSON escape form.
Digits ==
    <<
      {"0", "\\u0660", "\\u06f0", "\\u07c0", "\\u0966", "\\u09e6",
        "\\u0a66", "\\u0ae6", "\\u0b66", "\\u0be6", "\\u0c66", "\\u0ce6",
        "\\u0d66", "\\u0de6", "\\u0e50", "\\u0ed0", "\\u0f20", "\\u1040",
        "\\u1090", "\\u17e0", "\\u1810", "\\u1946", "\\u19d0", "\\u1a80",
        "\\u1a90", "\\u1b50", "\\u1bb0", "\\u1c40", "\\u1c50", "\\ua620",
        "\\ua8d0", "\\ua900", "\\ua9d0", "\\ua9f0", "\\uaa50", "\\uabf0",
        "\\uff10", "\\ud801\\udca0", "\\ud803\\udd30", "\\ud804\\udc66",
        "\\ud804\\udcf0", "\\ud804\\udd36", "\\ud804\\uddd0",
        "\\ud804\\udef0", "\\ud805\\udc50", "\\ud805\\udcd0",
        "\\ud805\\ude50", "\\ud805\\udec0", "\\ud805\\udf30",
        "\\ud806\\udce0", "\\ud806\\udd50", "\\ud807\\udc50",
        "\\ud807\\udd50", "\\ud807\\udda0", "\\ud81a\\ude60",
        "\\ud81a\\udec0", "\\ud81a\\udf50", "\\ud835\\udfce",
        "\\ud835\\udfd8", "\\ud835\\udfe2", "\\ud835\\udfec",
        "\\ud835\\udff6", "\\ud838\\udd40", "\\ud838\\udef0",
        "\\ud83a\\udd50", "\\ud83e\\udff0"},
      {"1", "\\u0661", "\\u06f1", "\\u07c1", "\\u0967", "\\u09e7",
        "\\u0a67", "\\u0ae7", "\\u0b67", "\\u0be7", "\\u0c67", "\\u0ce7",
        "\\u0d67", "\\u0de7", "\\u0e51", "\\u0ed1", "\\u0f21", "\\u1041",
        "\\u1091", "\\u17e1", "\\u1811", "\\u1947", "\\u19d1", "\\u1a81",
        "\\u1a91", "\\u1b51", "\\u1bb1", "\\u1c41", "\\u1c51", "\\ua621",
        "\\ua8d1", "\\ua901", "\\ua9d1", "\\ua9f1", "\\uaa51", "\\uabf1",
        "\\uff11", "\\ud801\\udca1", "\\ud803\\udd31", "\\ud804\\udc67",
        "\\ud804\\udcf1", "\\ud804\\udd37", "\\ud804\\uddd1",
        "\\ud804\\udef1", "\\ud805\\udc51", "\\ud805\\udcd1",
        "\\ud805\\ude51", "\\ud805\\udec1", "\\ud805\\udf31",
        "\\ud806\\udce1", "\\ud806\\udd51", "\\ud807\\udc51",
        "\\ud807\\udd51", "\\ud807\\udda1", "\\ud81a\\ude61",
        "\\ud81a\\udec1", "\\ud81a\\udf51", "\\ud835\\udfcf",
        "\\ud835\\udfd9", "\\ud835\\udfe3", "\\ud835\\udfed",
        "\\ud835\\udff7", "\\ud838\\udd41", "\\ud838\\udef1",
        "\\ud83a\\udd51", "\\ud83e\\udff1"},
      {"2", "\\u0662", "\\u06f2", "\\u07c2", "\\u0968", "\\u09e8",
        "\\u0a68", "\\u0ae8", "\\u0b68", "\\u0be8", "\\u0c68", "\\u0ce8",
        "\\u0d68", "\\u0de8", "\\u0e52", "\\u0ed2", "\\u0f22", "\\u1042",
        "\\u1092", "\\u17e2", "\\u1812", "\\u1948", "\\u19d2", "\\u1a82",
        "\\u1a92", "\\u1b52", "\\u1bb2", "\\u1c42", "\\u1c52", "\\ua622",
        "\\ua8d2", "\\ua902", "\\ua9d2", "\\ua9f2", "\\uaa52", "\\uabf2",
        "\\uff12", "\\ud801\\udca2", "\\ud803\\udd32", "\\ud804\\udc68",
        "\\ud804\\udcf2", "\\ud804\\udd38", "\\ud804\\uddd2",
        "\\ud804\\udef2", "\\ud805\\udc52", "\\ud805\\udcd2",
        "\\ud805\\ude52", "\\ud805\\udec2", "\\ud805\\udf32",
        "\\ud806\\udce2", "\\ud806\\udd52", "\\ud807\\udc52",
        "\\ud807\\udd52", "\\ud807\\udda2", "\\ud81a\\ude62",
        "\\ud81a\\udec2", "\\ud81a\\udf52", "\\ud835\\udfd0",
        "\\ud835\\udfda", "\\ud835\\udfe4", "\\ud835\\udfee",
        "\\ud835\\udff8", "\\ud838\\udd42", "\\ud838\\udef2",
        "\\ud83a\\udd52", "\\ud83e\\udff2"},
      {"3", "\\u0663", "\\u06f3", "\\u07c3", "\\u0969", "\\u09e9",
        "\\u0a69", "\\u0ae9", "\\u0b69", "\\u0be9", "\\u0c69", "\\u0ce9",
        "\\u0d69", "\\u0de9", "\\u0e53", "\\u0ed3", "\\u0f23", "\\u1043",
        "\\u1093", "\\u17e3", "\\u1813", "\\u1949", "\\u19d3", "\\u1a83",
        "\\u1a93", "\\u1b53", "\\u1bb3", "\\u1c43", "\\u1c53", "\\ua623",
        "\\ua8d3", "\\ua903", "\\ua9d3", "\\ua9f3", "\\uaa53", "\\uabf3",
        "\\uff13", "\\ud801\\udca3", "\\ud803\\udd33", "\\ud804\\udc69",
        "\\ud804\\udcf3", "\\ud804\\udd39", "\\ud804\\uddd3",
        "\\ud804\\udef3", "\\ud805\\udc53", "\\ud805\\udcd3",
        "\\ud805\\ude53", "\\ud805\\udec3", "\\ud805\\udf33",
        "\\ud806\\udce3", "\\ud806\\udd53", "\\ud807\\udc53",
        "\\ud807\\udd53", "\\ud807\\udda3", "\\ud81a\\ude63",
        "\\ud81a\\udec3", "\\ud81a\\udf53", "\\ud835\\udfd1",
        "\\ud835\\udfdb", "\\ud835\\udfe5", "\\ud835\\udfef",
        "\\ud835\\udff9", "\\ud838\\udd43", "\\ud838\\udef3",
        "\\ud83a\\udd53", "\\ud83e\\udff3"},
      {"4", "\\u0664", "\\u06f4", "\\u07c4", "\\u096a", "\\u09ea",
        "\\u0a6a", "\\u0aea", "\\u0b6a", "\\u0bea", "\\u0c6a", "\\u0cea",
        "\\u0d6a", "\\u0dea", "\\u0e54", "\\u0ed4", "\\u0f24", "\\u1044",
        "\\u1094", "\\u17e4", "\\u1814", "\\u194a", "\\u19d4", "\\u1a84",
        "\\u1a94", "\\u1b54", "\\u1bb4", "\\u1c44", "\\u1c54", "\\ua624",
        "\\ua8d4", "\\ua904", "\\ua9d4", "\\ua9f4", "\\uaa54", "\\uabf4",
        "\\uff14", "\\ud801\\udca4", "\\ud803\\udd34", "\\ud804\\udc6a",
        "\\ud804\\udcf4", "\\ud804\\udd3a", "\\ud804\\uddd4",
        "\\ud804\\udef4", "\\ud805\\udc54", "\\ud805\\udcd4",
        "\\ud805\\ude54", "\\ud805\\udec4", "\\ud805\\udf34",
        "\\ud806\\udce4", "\\ud806\\udd54", "\\ud807\\udc54",
        "\\ud807\\udd54", "\\ud807\\udda4", "\\ud81a\\ude64",
        "\\ud81a\\udec4", "\\ud81a\\udf54", "\\ud835\\udfd2",
        "\\ud835\\udfdc", "\\ud835\\udfe6", "\\ud835\\udff0",
        "\\ud835\\udffa", "\\ud838\\udd44", "\\ud838\\udef4",
        "\\ud83a\\udd54", "\\ud83e\\udff4"},
      {"5", "\\u0665", "\\u06f5", "\\u07c5", "\\u096b", "\\u09eb",
        "\\u0a6b", "\\u0aeb", "\\u0b6b", "\\u0beb", "\\u0c6b", "\\u0ceb",
        "\\u0d6b", "\\u0deb", "\\u0e55", "\\u0ed5", "\\u0f25", "\\u1045",
        "\\u1095", "\\u17e5", "\\u1815", "\\u194b", "\\u19d5", "\\u1a85",
        "\\u1a95", "\\u1b55", "\\u1bb5", "\\u1c45", "\\u1c55", "\\ua625",
        "\\ua8d5", "\\ua905", "\\ua9d5", "\\ua9f5", "\\uaa55", "\\uabf5",
        "\\uff15", "\\ud801\\udca5", "\\ud803\\udd35", "\\ud804\\udc6b",
        "\\ud804\\udcf5", "\\ud804\\udd3b", "\\ud804\\uddd5",
        "\\ud804\\udef5", "\\ud805\\udc55", "\\ud805\\udcd5",
        "\\ud805\\ude55", "\\ud805\\udec5", "\\ud805\\udf35",
        "\\ud806\\udce5", "\\ud806\\udd55", "\\ud807\\udc55",
        "\\ud807\\udd55", "\\ud807\\udda5", "\\ud81a\\ude65",
        "\\ud81a\\udec5", "\\ud81a\\udf55", "\\ud835\\udfd3",
        "\\ud835\\udfdd", "\\ud835\\udfe7", "\\ud835\\udff1",
        "\\ud835\\udffb", "\\ud838\\udd45", "\\ud838\\udef5",
        "\\ud83a\\udd55", "\\ud83e\\udff5"},
      {"6", "\\u0666", "\\u06f6", "\\u07c6", "\\u096c", "\\u09ec",
        "\\u0a6c", "\\u0aec", "\\u0b6c", "\\u0bec", "\\u0c6c", "\\u0cec",
        "\\u0d6c", "\\u0dec", "\\u0e56", "\\u0ed6", "\\u0f26", "\\u1046",
        "\\u1096", "\\u17e6", "\\u1816", "\\u194c", "\\u19d6", "\\u1a86",
        "\\u1a96", "\\u1b56", "\\u1bb6", "\\u1c46", "\\u1c56", "\\ua626",
        "\\ua8d6", "\\ua906", "\\ua9d6", "\\ua9f6", "\\uaa56", "\\uabf6",
        "\\uff16", "\\ud801\\udca6", "\\ud803\\udd36", "\\ud804\\udc6c",
        "\\ud804\\udcf6", "\\ud804\\udd3c", "\\ud804\\uddd6",
        "\\ud804\\udef6", "\\ud805\\udc56", "\\ud805\\udcd6",
        "\\ud805\\ude56", "\\ud805\\udec6", "\\ud805\\udf36",
        "\\ud806\\udce6", "\\ud806\\udd56", "\\ud807\\udc56",
        "\\ud807\\udd56", "\\ud807\\udda6", "\\ud81a\\ude66",
        "\\ud81a\\udec6", "\\ud81a\\udf56", "\\ud835\\udfd4",
        "\\ud835\\udfde", "\\ud835\\udfe8", "\\ud835\\udff2",
        "\\ud835\\udffc", "\\ud838\\udd46", "\\ud838\\udef6",
        "\\ud83a\\udd56", "\\ud83e\\udff6"},
      {"7", "\\u0667", "\\u06f7", "\\u07c7", "\\u096d", "\\u09ed",
        "\\u0a6d", "\\u0aed", "\\u0b6d", "\\u0bed", "\\u0c6d", "\\u0ced",
        "\\u0d6d", "\\u0ded", "\\u0e57", "\\u0ed7", "\\u0f27", "\\u1047",
        "\\u1097", "\\u17e7", "\\u1817", "\\u194d", "\\u19d7", "\\u1a87",
        "\\u1a97", "\\u1b57", "\\u1bb7", "\\u1c47", "\\u1c57", "\\ua627",
        "\\ua8d7", "\\ua907", "\\ua9d7", "\\ua9f7", "\\uaa57", "\\uabf7",
        "\\uff17", "\\ud801\\udca7", "\\ud803\\udd37", "\\ud804\\udc6d",
        "\\ud804\\udcf7", "\\ud804\\udd3d", "\\ud804\\uddd7",
        "\\ud804\\udef7", "\\ud805\\udc57", "\\ud805\\udcd7",
        "\\ud805\\ude57", "\\ud805\\udec7", "\\ud805\\udf37",
        "\\ud806\\udce7", "\\ud806\\udd57", "\\ud807\\udc57",
        "\\ud807\\udd57", "\\ud807\\udda7", "\\ud81a\\ude67",
        "\\ud81a\\udec7", "\\ud81a\\udf57", "\\ud835\\udfd5",
        "\\ud835\\udfdf", "\\ud835\\udfe9", "\\ud835\\udff3",
        "\\ud835\\udffd", "\\ud838\\udd47", "\\ud838\\udef7",
        "\\ud83a\\udd57", "\\ud83e\\udff7"},
      {"8", "\\u0668", "\\u06f8", "\\u07c8", "\\u096e", "\\u09ee",
        "\\u0a6e", "\\u0aee", "\\u0b6e", "\\u0bee", "\\u0c6e", "\\u0cee",
        "\\u0d6e", "\\u0dee", "\\u0e58", "\\u0ed8", "\\u0f28", "\\u1048",
        "\\u1098", "\\u17e8", "\\u1818", "\\u194e", "\\u19d8", "\\u1a88",
        "\\u1a98", "\\u1b58", "\\u1bb8", "\\u1c48", "\\u1c58", "\\ua628",
        "\\ua8d8", "\\ua908", "\\ua9d8", "\\ua9f8", "\\uaa58", "\\uabf8",
        "\\uff18", "\\ud801\\udca8", "\\ud803\\udd38", "\\ud804\\udc6e",
        "\\ud804\\udcf8", "\\ud804\\udd3e", "\\ud804\\uddd8",
        "\\ud804\\udef8", "\\ud805\\udc58", "\\ud805\\udcd8",
        "\\ud805\\ude58", "\\ud805\\udec8", "\\ud805\\udf38",
        "\\ud806\\udce8", "\\ud806\\udd58", "\\ud807\\udc58",
        "\\ud807\\udd58", "\\ud807\\udda8", "\\ud81a\\ude68",
        "\\ud81a\\udec8", "\\ud81a\\udf58", "\\ud835\\udfd6",
        "\\ud835\\udfe0", "\\ud835\\udfea", "\\ud835\\udff4",
        "\\ud835\\udffe", "\\ud838\\udd48", "\\ud838\\udef8",
        "\\ud83a\\udd58", "\\ud83e\\udff8"},
      {"9", "\\u0669", "\\u06f9", "\\u07c9", "\\u096f", "\\u09ef",
        "\\u0a6f", "\\u0aef", "\\u0b6f", "\\u0bef", "\\u0c6f", "\\u0cef",
        "\\u0d6f", "\\u0def", "\\u0e59", "\\u0ed9", "\\u0f29", "\\u1049",
        "\\u1099", "\\u17e9", "\\u1819", "\\u194f", "\\u19d9", "\\u1a89",
        "\\u1a99", "\\u1b59", "\\u1bb9", "\\u1c49", "\\u1c59", "\\ua629",
        "\\ua8d9", "\\ua909", "\\ua9d9", "\\ua9f9", "\\uaa59", "\\uabf9",
        "\\uff19", "\\ud801\\udca9", "\\ud803\\udd39", "\\ud804\\udc6f",
        "\\ud804\\udcf9", "\\ud804\\udd3f", "\\ud804\\uddd9",
        "\\ud804\\udef9", "\\ud805\\udc59", "\\ud805\\udcd9",
        "\\ud805\\ude59", "\\ud805\\udec9", "\\ud805\\udf39",
        "\\ud806\\udce9", "\\ud806\\udd59", "\\ud807\\udc59",
        "\\ud807\\udd59", "\\ud807\\udda9", "\\ud81a\\ude69",
        "\\ud81a\\udec9", "\\ud81a\\udf59", "\\ud835\\udfd7",
        "\\ud835\\udfe1", "\\ud835\\udfeb", "\\ud835\\udff5",
        "\\ud835\\udfff", "\\ud838\\udd49", "\\ud838\\udef9",
        "\\ud83a\\udd59", "\\ud83e\\udff9"}
    >>

IsDigit(c) == \E k \in 1..10 : c \in Digits[k]

DigitVal(c) == (CHOOSE k \in 1..10 : c \in Digits[k]) - 1

\* the characters c with c.isspace(), which strip() and int() remove
Whitespace ==
    {"\t", "\n", "\\u000b", "\f", "\r", "\\u001c", "\\u001d", "\\u001e",
      "\\u001f", " ", "\\u0085", "\\u00a0", "\\u1680", "\\u2000", "\\u2001",
      "\\u2002", "\\u2003", "\\u2004", "\\u2005", "\\u2006", "\\u2007",
      "\\u2008", "\\u2009", "\\u200a", "\\u2028", "\\u2029", "\\u202f",
      "\\u205f", "\\u3000"}

\* str.split(sep) with a one-character separator
RECURSIVE split(_, _)
split(s, sep) ==
    IF \A i \in 1..Len(s) : s[i] # sep
    THEN <<s>>
    ELSE LET k == CHOOSE i \in 1..Len(s) :
                      s[i] = sep /\ \A j \in 1..(i - 1) : s[j] # sep
         IN  <<SubSeq(s, 1, k - 1)>> \o split(SubSeq(s, k + 1, Len(s)), sep)

\* s without the characters of chars at its two ends
RECURSIVE strip_chars(_, _)
strip_chars(s, chars) ==
    IF s = <<>> THEN s
    ELSE IF Head(s) \in chars THEN strip_chars(Tail(s), chars)
    ELSE IF s[Len(s)] \in chars
         THEN strip_chars(SubSeq(s, 1, Len(s) - 1), chars)
    ELSE s

\* str.strip()
strip(s) == strip_chars(s, Whitespace)

\* the whitespace int() accepts around a number: every space of Unicode
\* but the four separators U+001C..U+001F
IntWhitespace == Whitespace \ {"\\u001c", "\\u001d", "\\u001e", "\\u001f"}

\* the characters c with c.lower() # c, and at the same index what
\* c.lower() is made of
UpperCase ==
    <<"A", "B", "C", "D", "E", "F", "G", "H", "I", "J", "K", "L", "M", "N",
      "O", "P", "Q", "R", "S", "T", "U", "V", "W", "X", "Y", "Z", "\\u00c0",
      "\\u00c1", "\\u00c2", "\\u00c3", "\\u00c4", "\\u00c5", "\\u00c6",
      "\\u00c7", "\\u00c8", "\\u00c9", "\\u00ca", "\\u00cb", "\\u00cc",
      "\\u00cd", "\\u00ce", "\\u00cf", "\\u00d0", "\\u00d1", "\\u00d2",
      "\\u00d3", "\\u00d4", "\\u00d5", "\\u00d6", "\\u00d8", "\\u00d9",
      "\\u00da", "\\u00db", "\\u00dc", "\\u00dd", "\\u00de", "\\u0100",
      "\\u0102", "\\u0104", "\\u0106", "\\u0108", "\\u010a", "\\u010c",
      "\\u010e", "\\u0110", "\\u0112", "\\u0114", "\\u0116", "\\u0118",
      "\\u011a", "\\u011c", "\\u011e", "\\u0120", "\\u0122", "\\u0124",
      "\\u0126", "\\u0128", "\\u012a", "\\u012c", "\\u012e", "\\u0130",
      "\\u0132", "\\u0134", "\\u0136", "\\u0139", "\\u013b", "\\u013d",
      "\\u013f", "\\u0141", "\\u0143", "\\u0145", "\\u0147", "\\u014a",
      "\\u014c", "\\u014e", "\\u0150", "\\u0152", "\\u0154", "\\u0156",
      "\\u0158", "\\u015a", "\\u015c", "\\u015e", "\\u0160", "\\u0162",
      "\\u0164", "\\u0166", "\\u0168", "\\u016a", "\\u016c", "\\u016e",
      "\\u0170", "\\u0172", "\\u0174", "\\u0176", "\\u0178", "\\u0179",
      "\\u017b", "\\u017d", "\\u0181", "\\u0182", "\\u0184", "\\u0186",
      "\\u0187", "\\u0189", "\\u018a", "\\u018b", "\\u018e", "\\u018f",
      "\\u0190", "\\u0191", "\\u0193", "\\u0194", "\\u0196", "\\u0197",
      "\\u0198", "\\u019c", "\\u019d", "\\u019f", "\\u01a0", "\\u01a2",
      "\\u01a4", "\\u01a6", "\\u01a7", "\\u01a9", "\\u01ac", "\\u01ae",
      "\\u01af", "\\u01b1", "\\u01b2", "\\u01b3", "\\u01b5", "\\u01b7",
      "\\u01b8", "\\u01bc", "\\u01c4", "\\u01c5", "\\u01c7", "\\u01c8",
      "\\u01ca", "\\u01cb", "\\u01cd", "\\u01cf", "\\u01d1", "\\u01d3",
      "\\u01d5", "\\u01d7", "\\u01d9", "\\u01db", "\\u01de", "\\u01e0",
      "\\u01e2", "\\u01e4", "\\u01e6", "\\u01e8", "\\u01ea", "\\u01ec",
      "\\u01ee", "\\u01f1", "\\u01f2", "\\u01f4", "\\u01f6", "\\u01f7",
      "\\u01f8", "\\u01fa", "\\u01fc", "\\u01fe", "\\u0200", "\\u0202",
      "\\u0204", "\\u0206", "\\u0208", "\\u020a", "\\u020c", "\\u020e",
      "\\u0210", "\\u0212", "\\u0214", "\\u0216", "\\u0218", "\\u021a",
      "\\u021c", "\\u021e", "\\u0220", "\\u0222", "\\u0224", "\\u0226",
      "\\u0228", "\\u022a", "\\u022c", "\\u022e", "\\u0230", "\\u0232",
      "\\u023a", "\\u023b", "\\u023d", "\\u023e", "\\u0241", "\\u0243",
      "\\u0244", "\\u0245", "\\u0246", "\\u0248", "\\u024a", "\\u024c",
      "\\u024e", "\\u0370", "\\u0372", "\\u0376", "\\u037f", "\\u0386",
      "\\u0388", "\\u0389", "\\u038a", "\\u038c", "\\u038e", "\\u038f",
      "\\u0391", "\\u0392", "\\u0393", "\\u0394", "\\u0395", "\\u0396",
      "\\u0397", "\\u0398", "\\u0399", "\\u039a", "\\u039b", "\\u039c",
      "\\u039d", "\\u039e", "\\u039f", "\\u03a0", "\\u03a1", "\\u03a3",
      "\\u03a4", "\\u03a5", "\\u03a6", "\\u03a7", "\\u03a8", "\\u03a9",
      "\\u03aa", "\\u03ab", "\\u03cf", "\\u03d8", "\\u03da", "\\u03dc",
      "\\u03de", "\\u03e0", "\\u03e2", "\\u03e4", "\\u03e6", "\\u03e8",
      "\\u03ea", "\\u03ec", "\\u03ee", "\\u03f4", "\\u03f7", "\\u03f9",
      "\\u03fa", "\\u03fd", "\\u03fe", "\\u03ff", "\\u0400", "\\u0401",
      "\\u0402", "\\u0403", "\\u0404", "\\u0405", "\\u0406", "\\u0407",
      "\\u0408", "\\u0409", "\\u040a", "\\u040b", "\\u040c", "\\u040d",
      "\\u040e", "\\u040f", "\\u0410", "\\u0411", "\\u0412", "\\u0413",
      "\\u0414", "\\u0415", "\\u0416", "\\u0417", "\\u0418", "\\u0419",
      "\\u041a", "\\u041b", "\\u041c", "\\u041d", "\\u041e", "\\u041f",
      "\\u0420", "\\u0421", "\\u0422", "\\u0423", "\\u0424", "\\u0425",
      "\\u0426", "\\u0427", "\\u0428", "\\u0429", "\\u042a", "\\u042b",
      "\\u042c", "\\u042d", "\\u042e", "\\u042f", "\\u0460", "\\u0462",
      "\\u0464", "\\u0466", "\\u0468", "\\u046a", "\\u046c", "\\u046e",
      "\\u0470", "\\u0472", "\\u0474", "\\u0476", "\\u0478", "\\u047a",
      "\\u047c", "\\u047e", "\\u0480", "\\u048a", "\\u048c", "\\u048e",
      "\\u0490", "\\u0492", "\\u0494", "\\u0496", "\\u0498", "\\u049a",
      "\\u049c", "\\u049e", "\\u04a0", "\\u04a2", "\\u04a4", "\\u04a6",
      "\\u04a8", "\\u04aa", "\\u04ac", "\\u04ae", "\\u04b0", "\\u04b2",
      "\\u04b4", "\\u04b6", "\\u04b8", "\\u04ba", "\\u04bc", "\\u04be",
      "\\u04c0", "\\u04c1", "\\u04c3", "\\u04c5", "\\u04c7", "\\u04c9",
      "\\u04cb", "\\u04cd", "\\u04d0", "\\u04d2", "\\u04d4", "\\u04d6",
      "\\u04d8", "\\u04da", "\\u04dc", "\\u04de", "\\u04e0", "\\u04e2",
      "\\u04e4", "\\u04e6", "\\u04e8", "\\u04ea", "\\u04ec", "\\u04ee",
      "\\u04f0", "\\u04f2", "\\u04f4", "\\u04f6", "\\u04f8", "\\u04fa",
      "\\u04fc", "\\u04fe", "\\u0500", "\\u0502", "\\u0504", "\\u0506",
      "\\u0508", "\\u050a", "\\u050c", "\\u050e", "\\u0510", "\\u0512",
      "\\u0514", "\\u0516", "\\u0518", "\\u051a", "\\u051c", "\\u051e",
      "\\u0520", "\\u0522", "\\u0524", "\\u0526", "\\u0528", "\\u052a",
      "\\u052c", "\\u052e", "\\u0531", "\\u0532", "\\u0533", "\\u0534",
      "\\u0535", "\\u0536", "\\u0537", "\\u0538", "\\u0539", "\\u053a",
      "\\u053b", "\\u053c", "\\u053d", "\\u053e", "\\u053f", "\\u0540",
      "\\u0541", "\\u0542", "\\u0543", "\\u0544", "\\u0545", "\\u0546",
      "\\u0547", "\\u0548", "\\u0549", "\\u054a", "\\u054b", "\\u054c",
      "\\u054d", "\\u054e", "\\u054f", "\\u0550", "\\u0551", "\\u0552",
      "\\u0553", "\\u0554", "\\u0555", "\\u0556", "\\u10a0", "\\u10a1",
      "\\u10a2", "\\u10a3", "\\u10a4", "\\u10a5", "\\u10a6", "\\u10a7",
      "\\u10a8", "\\u10a9", "\\u10aa", "\\u10ab", "\\u10ac", "\\u10ad",
      "\\u10ae", "\\u10af", "\\u10b0", "\\u10b1", "\\u10b2", "\\u10b3",
      "\\u10b4", "\\u10b5", "\\u10b6", "\\u10b7", "\\u10b8", "\\u10b9",
      "\\u10ba", "\\u10bb", "\\u10bc", "\\u10bd", "\\u10be", "\\u10bf",
      "\\u10c0", "\\u10c1", "\\u10c2", "\\u10c3", "\\u10c4", "\\u10c5",
      "\\u10c7", "\\u10cd", "\\u13a0", "\\u13a1", "\\u13a2", "\\u13a3",
      "\\u13a4", "\\u13a5", "\\u13a6", "\\u13a7", "\\u13a8", "\\u13a9",
      "\\u13aa", "\\u13ab", "\\u13ac", "\\u13ad", "\\u13ae", "\\u13af",
      "\\u13b0", "\\u13b1", "\\u13b2", "\\u13b3", "\\u13b4", "\\u13b5",
      "\\u13b6", "\\u13b7", "\\u13b8", "\\u13b9", "\\u13ba", "\\u13bb",
      "\\u13bc", "\\u13bd", "\\u13be", "\\u13bf", "\\u13c0", "\\u13c1",
      "\\u13c2", "\\u13c3", "\\u13c4", "\\u13c5", "\\u13c6", "\\u13c7",
      "\\u13c8", "\\u13c9", "\\u13ca", "\\u13cb", "\\u13cc", "\\u13cd",
      "\\u13ce", "\\u13cf", "\\u13d0", "\\u13d1", "\\u13d2", "\\u13d3",
      "\\u13d4", "\\u13d5", "\\u13d6", "\\u13d7", "\\u13d8", "\\u13d9",
      "\\u13da", "\\u13db", "\\u13dc", "\\u13dd", "\\u13de", "\\u13df",
      "\\u13e0", "\\u13e1", "\\u13e2", "\\u13e3", "\\u13e4", "\\u13e5",
      "\\u13e6", "\\u13e7", "\\u13e8", "\\u13e9", "\\u13ea", "\\u13eb",
      "\\u13ec", "\\u13ed", "\\u13ee", "\\u13ef", "\\u13f0", "\\u13f1",
      "\\u13f2", "\\u13f3", "\\u13f4", "\\u13f5", "\\u1c90", "\\u1c91",
      "\\u1c92", "\\u1c93", "\\u1c94", "\\u1c95", "\\u1c96", "\\u1c97",
      "\\u1c98", "\\u1c99", "\\u1c9a", "\\u1c9b", "\\u1c9c", "\\u1c9d",
      "\\u1c9e", "\\u1c9f", "\\u1ca0", "\\u1ca1", "\\u1ca2", "\\u1ca3",
      "\\u1ca4", "\\u1ca5", "\\u1ca6", "\\u1ca7", "\\u1ca8", "\\u1ca9",
      "\\u1caa", "\\u1cab", "\\u1cac", "\\u1cad", "\\u1cae", "\\u1caf",
      "\\u1cb0", "\\u1cb1", "\\u1cb2", "\\u1cb3", "\\u1cb4", "\\u1cb5",
      "\\u1cb6", "\\u1cb7", "\\u1cb8", "\\u1cb9", "\\u1cba", "\\u1cbd",
      "\\u1cbe", "\\u1cbf", "\\u1e00", "\\u1e02", "\\u1e04", "\\u1e06",
      "\\u1e08", "\\u1e0a", "\\u1e0c", "\\u1e0e", "\\u1e10", "\\u1e12",
      "\\u1e14", "\\u1e16", "\\u1e18", "\\u1e1a", "\\u1e1c", "\\u1e1e",
      "\\u1e20", "\\u1e22", "\\u1e24", "\\u1e26", "\\u1e28", "\\u1e2a",
      "\\u1e2c", "\\u1e2e", "\\u1e30", "\\u1e32", "\\u1e34", "\\u1e36",
      "\\u1e38", "\\u1e3a", "\\u1e3c", "\\u1e3e", "\\u1e40", "\\u1e42",
      "\\u1e44", "\\u1e46", "\\u1e48", "\\u1e4a", "\\u1e4c", "\\u1e4e",
      "\\u1e50", "\\u1e52", "\\u1e54", "\\u1e56", "\\u1e58", "\\u1e5a",
      "\\u1e5c", "\\u1e5e", "\\u1e60", "\\u1e62", "\\u1e64", "\\u1e66",
      "\\u1e68", "\\u1e6a", "\\u1e6c", "\\u1e6e", "\\u1e70", "\\u1e72",
      "\\u1e74", "\\u1e76", "\\u1e78", "\\u1e7a", "\\u1e7c", "\\u1e7e",
      "\\u1e80", "\\u1e82", "\\u1e84", "\\u1e86", "\\u1e88", "\\u1e8a",
      "\\u1e8c", "\\u1e8e", "\\u1e90", "\\u1e92", "\\u1e94", "\\u1e9e",
      "\\u1ea0", "\\u1ea2", "\\u1ea4", "\\u1ea6", "\\u1ea8", "\\u1eaa",
      "\\u1eac", "\\u1eae", "\\u1eb0", "\\u1eb2", "\\u1eb4", "\\u1eb6",
      "\\u1eb8", "\\u1eba", "\\u1ebc", "\\u1ebe", "\\u1ec0", "\\u1ec2",
      "\\u1ec4", "\\u1ec6", "\\u1ec8", "\\u1eca", "\\u1ecc", "\\u1ece",
      "\\u1ed0", "\\u1ed2", "\\u1ed4", "\\u1ed6", "\\u1ed8", "\\u1eda",
      "\\u1edc", "\\u1ede", "\\u1ee0", "\\u1ee2", "\\u1ee4", "\\u1ee6",
      "\\u1ee8", "\\u1eea", "\\u1eec", "\\u1eee", "\\u1ef0", "\\u1ef2",
      "\\u1ef4", "\\u1ef6", "\\u1ef8", "\\u1efa", "\\u1efc", "\\u1efe",
      "\\u1f08", "\\u1f09", "\\u1f0a", "\\u1f0b", "\\u1f0c", "\\u1f0d",
      "\\u1f0e", "\\u1f0f", "\\u1f18", "\\u1f19", "\\u1f1a", "\\u1f1b",
      "\\u1f1c", "\\u1f1d", "\\u1f28", "\\u1f29", "\\u1f2a", "\\u1f2b",
      "\\u1f2c", "\\u1f2d", "\\u1f2e", "\\u1f2f", "\\u1f38", "\\u1f39",
      "\\u1f3a", "\\u1f3b", "\\u1f3c", "\\u1f3d", "\\u1f3e", "\\u1f3f",
      "\\u1f48", "\\u1f49", "\\u1f4a", "\\u1f4b", "\\u1f4c", "\\u1f4d",
      "\\u1f59", "\\u1f5b", "\\u1f5d", "\\u1f5f", "\\u1f68", "\\u1f69",
      "\\u1f6a", "\\u1f6b", "\\u1f6c", "\\u1f6d", "\\u1f6e", "\\u1f6f",
      "\\u1f88", "\\u1f89", "\\u1f8a", "\\u1f8b", "\\u1f8c", "\\u1f8d",
      "\\u1f8e", "\\u1f8f", "\\u1f98", "\\u1f99", "\\u1f9a", "\\u1f9b",
      "\\u1f9c", "\\u1f9d", "\\u1f9e", "\\u1f9f", "\\u1fa8", "\\u1fa9",
      "\\u1faa", "\\u1fab", "\\u1fac", "\\u1fad", "\\u1fae", "\\u1faf",
      "\\u1fb8", "\\u1fb9", "\\u1fba", "\\u1fbb", "\\u1fbc", "\\u1fc8",
      "\\u1fc9", "\\u1fca", "\\u1fcb", "\\u1fcc", "\\u1fd8", "\\u1fd9",
      "\\u1fda", "\\u1fdb", "\\u1fe8", "\\u1fe9", "\\u1fea", "\\u1feb",
      "\\u1fec", "\\u1ff8", "\\u1ff9", "\\u1ffa", "\\u1ffb", "\\u1ffc",
      "\\u2126", "\\u212a", "\\u212b", "\\u2132", "\\u2160", "\\u2161",
      "\\u2162", "\\u2163", "\\u2164", "\\u2165", "\\u2166", "\\u2167",
      "\\u2168", "\\u2169", "\\u216a", "\\u216b", "\\u216c", "\\u216d",
      "\\u216e", "\\u216f", "\\u2183", "\\u24b6", "\\u24b7", "\\u24b8",
      "\\u24b9", "\\u24ba", "\\u24bb", "\\u24bc", "\\u24bd", "\\u24be",
      "\\u24bf", "\\u24c0", "\\u24c1", "\\u24c2", "\\u24c3", "\\u24c4",
      "\\u24c5", "\\u24c6", "\\u24c7", "\\u24c8", "\\u24c9", "\\u24ca",
      "\\u24cb", "\\u24cc", "\\u24cd", "\\u24ce", "\\u24cf", "\\u2c00",
      "\\u2c01", "\\u2c02", "\\u2c03", "\\u2c04", "\\u2c05", "\\u2c06",
      "\\u2c07", "\\u2c08", "\\u2c09", "\\u2c0a", "\\u2c0b", "\\u2c0c",
      "\\u2c0d", "\\u2c0e", "\\u2c0f", "\\u2c10", "\\u2c11", "\\u2c12",
      "\\u2c13", "\\u2c14", "\\u2c15", "\\u2c16", "\\u2c17", "\\u2c18",
      "\\u2c19", "\\u2c1a", "\\u2c1b", "\\u2c1c", "\\u2c1d", "\\u2c1e",
      "\\u2c1f", "\\u2c20", "\\u2c21", "\\u2c22", "\\u2c23", "\\u2c24",
      "\\u2c25", "\\u2c26", "\\u2c27", "\\u2c28", "\\u2c29", "\\u2c2a",
      "\\u2c2b", "\\u2c2c", "\\u2c2d", "\\u2c2e", "\\u2c2f", "\\u2c60",
      "\\u2c62", "\\u2c63", "\\u2c64", "\\u2c67", "\\u2c69", "\\u2c6b",
      "\\u2c6d", "\\u2c6e", "\\u2c6f", "\\u2c70", "\\u2c72", "\\u2c75",
      "\\u2c7e", "\\u2c7f", "\\u2c80", "\\u2c82", "\\u2c84", "\\u2c86",
      "\\u2c88", "\\u2c8a", "\\u2c8c", "\\u2c8e", "\\u2c90", "\\u2c92",
      "\\u2c94", "\\u2c96", "\\u2c98", "\\u2c9a", "\\u2c9c", "\\u2c9e",
      "\\u2ca0", "\\u2ca2", "\\u2ca4", "\\u2ca6", "\\u2ca8", "\\u2caa",
      "\\u2cac", "\\u2cae", "\\u2cb0", "\\u2cb2", "\\u2cb4", "\\u2cb6",
      "\\u2cb8", "\\u2cba", "\\u2cbc", "\\u2cbe", "\\u2cc0", "\\u2cc2",
      "\\u2cc4", "\\u2cc6", "\\u2cc8", "\\u2cca", "\\u2ccc", "\\u2cce",
      "\\u2cd0", "\\u2cd2", "\\u2cd4", "\\u2cd6", "\\u2cd8", "\\u2cda",
      "\\u2cdc", "\\u2cde", "\\u2ce0", "\\u2ce2", "\\u2ceb", "\\u2ced",
      "\\u2cf2", "\\ua640", "\\ua642", "\\ua644", "\\ua646", "\\ua648",
      "\\ua64a", "\\ua64c", "\\ua64e", "\\ua650", "\\ua652", "\\ua654",
      "\\ua656", "\\ua658", "\\ua65a", "\\ua65c", "\\ua65e", "\\ua660",
      "\\ua662", "\\ua664", "\\ua666", "\\ua668", "\\ua66a", "\\ua66c",
      "\\ua680", "\\ua682", "\\ua684", "\\ua686", "\\ua688", "\\ua68a",
      "\\ua68c", "\\ua68e", "\\ua690", "\\ua692", "\\ua694", "\\ua696",
      "\\ua698", "\\ua69a", "\\ua722", "\\ua724", "\\ua726", "\\ua728",
      "\\ua72a", "\\ua72c", "\\ua72e", "\\ua732", "\\ua734", "\\ua736",
      "\\ua738", "\\ua73a", "\\ua73c", "\\ua73e", "\\ua740", "\\ua742",
      "\\ua744", "\\ua746", "\\ua748", "\\ua74a", "\\ua74c", "\\ua74e",
      "\\ua750", "\\ua752", "\\ua754", "\\ua756", "\\ua758", "\\ua75a",
      "\\ua75c", "\\ua75e", "\\ua760", "\\ua762", "\\ua764", "\\ua766",
      "\\ua768", "\\ua76a", "\\ua76c", "\\ua76e", "\\ua779", "\\ua77b",
      "\\ua77d", "\\ua77e", "\\ua780", "\\ua782", "\\ua784", "\\ua786",
      "\\ua78b", "\\ua78d", "\\ua790", "\\ua792", "\\ua796", "\\ua798",
      "\\ua79a", "\\ua79c", "\\ua79e", "\\ua7a0", "\\ua7a2", "\\ua7a4",
      "\\ua7a6", "\\ua7a8", "\\ua7aa", "\\ua7ab", "\\ua7ac", "\\ua7ad",
      "\\ua7ae", "\\ua7b0", "\\ua7b1", "\\ua7b2", "\\ua7b3", "\\ua7b4",
      "\\ua7b6", "\\ua7b8", "\\ua7ba", "\\ua7bc", "\\ua7be", "\\ua7c0",
      "\\ua7c2", "\\ua7c4", "\\ua7c5", "\\ua7c6", "\\ua7c7", "\\ua7c9",
      "\\ua7d0", "\\ua7d6", "\\ua7d8", "\\ua7f5", "\\uff21", "\\uff22",
      "\\uff23", "\\uff24", "\\uff25", "\\uff26", "\\uff27", "\\uff28",
      "\\uff29", "\\uff2a", "\\uff2b", "\\uff2c", "\\uff2d", "\\uff2e",
      "\\uff2f", "\\uff30", "\\uff31", "\\uff32", "\\uff33", "\\uff34",
      "\\uff35", "\\uff36", "\\uff37", "\\uff38", "\\uff39", "\\uff3a",
      "\\ud801\\udc00", "\\ud801\\udc01", "\\ud801\\udc02", "\\ud801\\udc03",
      "\\ud801\\udc04", "\\ud801\\udc05", "\\ud801\\udc06", "\\ud801\\udc07",
      "\\ud801\\udc08", "\\ud801\\udc09", "\\ud801\\udc0a", "\\ud801\\udc0b",
      "\\ud801\\udc0c", "\\ud801\\udc0d", "\\ud801\\udc0e", "\\ud801\\udc0f",
      "\\ud801\\udc10", "\\ud801\\udc11", "\\ud801\\udc12", "\\ud801\\udc13",
      "\\ud801\\udc14", "\\ud801\\udc15", "\\ud801\\udc16", "\\ud801\\udc17",
      "\\ud801\\udc18", "\\ud801\\udc19", "\\ud801\\udc1a", "\\ud801\\udc1b",
      "\\ud801\\udc1c", "\\ud801\\udc1d", "\\ud801\\udc1e", "\\ud801\\udc1f",
      "\\ud801\\udc20", "\\ud801\\udc21", "\\ud801\\udc22", "\\ud801\\udc23",
      "\\ud801\\udc24", "\\ud801\\udc25", "\\ud801\\udc26", "\\ud801\\udc27",
      "\\ud801\\udcb0", "\\ud801\\udcb1", "\\ud801\\udcb2", "\\ud801\\udcb3",
      "\\ud801\\udcb4", "\\ud801\\udcb5", "\\ud801\\udcb6", "\\ud801\\udcb7",
      "\\ud801\\udcb8", "\\ud801\\udcb9", "\\ud801\\udcba", "\\ud801\\udcbb",
      "\\ud801\\udcbc", "\\ud801\\udcbd", "\\ud801\\udcbe", "\\ud801\\udcbf",
      "\\ud801\\udcc0", "\\ud801\\udcc1", "\\ud801\\udcc2", "\\ud801\\udcc3",
      "\\ud801\\udcc4", "\\ud801\\udcc5", "\\ud801\\udcc6", "\\ud801\\udcc7",
      "\\ud801\\udcc8", "\\ud801\\udcc9", "\\ud801\\udcca", "\\ud801\\udccb",
      "\\ud801\\udccc", "\\ud801\\udccd", "\\ud801\\udcce", "\\ud801\\udccf",
      "\\ud801\\udcd0", "\\ud801\\udcd1", "\\ud801\\udcd2", "\\ud801\\udcd3",
      "\\ud801\\udd70", "\\ud801\\udd71", "\\ud801\\udd72", "\\ud801\\udd73",
      "\\ud801\\udd74", "\\ud801\\udd75", "\\ud801\\udd76", "\\ud801\\udd77",
      "\\ud801\\udd78", "\\ud801\\udd79", "\\ud801\\udd7a", "\\ud801\\udd7c",
      "\\ud801\\udd7d", "\\ud801\\udd7e", "\\ud801\\udd7f", "\\ud801\\udd80",
      "\\ud801\\udd81", "\\ud801\\udd82", "\\ud801\\udd83", "\\ud801\\udd84",
      "\\ud801\\udd85", "\\ud801\\udd86", "\\ud801\\udd87", "\\ud801\\udd88",
      "\\ud801\\udd89", "\\ud801\\udd8a", "\\ud801\\udd8c", "\\ud801\\udd8d",
      "\\ud801\\udd8e", "\\ud801\\udd8f", "\\ud801\\udd90", "\\ud801\\udd91",
      "\\ud801\\udd92", "\\ud801\\udd94", "\\ud801\\udd95", "\\ud803\\udc80",
      "\\ud803\\udc81", "\\ud803\\udc82", "\\ud803\\udc83", "\\ud803\\udc84",
      "\\ud803\\udc85", "\\ud803\\udc86", "\\ud803\\udc87", "\\ud803\\udc88",
      "\\ud803\\udc89", "\\ud803\\udc8a", "\\ud803\\udc8b", "\\ud803\\udc8c",
      "\\ud803\\udc8d", "\\ud803\\udc8e", "\\ud803\\udc8f", "\\ud803\\udc90",
      "\\ud803\\udc91", "\\ud803\\udc92", "\\ud803\\udc93", "\\ud803\\udc94",
      "\\ud803\\udc95", "\\ud803\\udc96", "\\ud803\\udc97", "\\ud803\\udc98",
      "\\ud803\\udc99", "\\ud803\\udc9a", "\\ud803\\udc9b", "\\ud803\\udc9c",
      "\\ud803\\udc9d", "\\ud803\\udc9e", "\\ud803\\udc9f", "\\ud803\\udca0",
      "\\ud803\\udca1", "\\ud803\\udca2", "\\ud803\\udca3", "\\ud803\\udca4",
      "\\ud803\\udca5", "\\ud803\\udca6", "\\ud803\\udca7", "\\ud803\\udca8",
      "\\ud803\\udca9", "\\ud803\\udcaa", "\\ud803\\udcab", "\\ud803\\udcac",
      "\\ud803\\udcad", "\\ud803\\udcae", "\\ud803\\udcaf", "\\ud803\\udcb0",
      "\\ud803\\udcb1", "\\ud803\\udcb2", "\\ud806\\udca0", "\\ud806\\udca1",
      "\\ud806\\udca2", "\\ud806\\udca3", "\\ud806\\udca4", "\\ud806\\udca5",
      "\\ud806\\udca6", "\\ud806\\udca7", "\\ud806\\udca8", "\\ud806\\udca9",
      "\\ud806\\udcaa", "\\ud806\\udcab", "\\ud806\\udcac", "\\ud806\\udcad",
      "\\ud806\\udcae", "\\ud806\\udcaf", "\\ud806\\udcb0", "\\ud806\\udcb1",
      "\\ud806\\udcb2", "\\ud806\\udcb3", "\\ud806\\udcb4", "\\ud806\\udcb5",
      "\\ud806\\udcb6", "\\ud806\\udcb7", "\\ud806\\udcb8", "\\ud806\\udcb9",
      "\\ud806\\udcba", "\\ud806\\udcbb", "\\ud806\\udcbc", "\\ud806\\udcbd",
      "\\ud806\\udcbe", "\\ud806\\udcbf", "\\ud81b\\ude40", "\\ud81b\\ude41",
      "\\ud81b\\ude42", "\\ud81b\\ude43", "\\ud81b\\ude44", "\\ud81b\\ude45",
      "\\ud81b\\ude46", "\\ud81b\\ude47", "\\ud81b\\ude48", "\\ud81b\\ude49",
      "\\ud81b\\ude4a", "\\ud81b\\ude4b", "\\ud81b\\ude4c", "\\ud81b\\ude4d",
      "\\ud81b\\ude4e", "\\ud81b\\ude4f", "\\ud81b\\ude50", "\\ud81b\\ude51",
      "\\ud81b\\ude52", "\\ud81b\\ude53", "\\ud81b\\ude54", "\\ud81b\\ude55",
      "\\ud81b\\ude56", "\\ud81b\\ude57", "\\ud81b\\ude58", "\\ud81b\\ude59",
      "\\ud81b\\ude5a", "\\ud81b\\ude5b", "\\ud81b\\ude5c", "\\ud81b\\ude5d",
      "\\ud81b\\ude5e", "\\ud81b\\ude5f", "\\ud83a\\udd00", "\\ud83a\\udd01",
      "\\ud83a\\udd02", "\\ud83a\\udd03", "\\ud83a\\udd04", "\\ud83a\\udd05",
      "\\ud83a\\udd06", "\\ud83a\\udd07", "\\ud83a\\udd08", "\\ud83a\\udd09",
      "\\ud83a\\udd0a", "\\ud83a\\udd0b", "\\ud83a\\udd0c", "\\ud83a\\udd0d",
      "\\ud83a\\udd0e", "\\ud83a\\udd0f", "\\ud83a\\udd10", "\\ud83a\\udd11",
      "\\ud83a\\udd12", "\\ud83a\\udd13", "\\ud83a\\udd14", "\\ud83a\\udd15",
      "\\ud83a\\udd16", "\\ud83a\\udd17", "\\ud83a\\udd18", "\\ud83a\\udd19",
      "\\ud83a\\udd1a", "\\ud83a\\udd1b", "\\ud83a\\udd1c", "\\ud83a\\udd1d",
      "\\ud83a\\udd1e", "\\ud83a\\udd1f", "\\ud83a\\udd20", "\\ud83a\\udd21">>

LowerCase ==
    <<<<"a">>, <<"b">>, <<"c">>, <<"d">>, <<"e">>, <<"f">>, <<"g">>, <<"h">>,
      <<"i">>, <<"j">>, <<"k">>, <<"l">>, <<"m">>, <<"n">>, <<"o">>, <<"p">>,
      <<"q">>, <<"r">>, <<"s">>, <<"t">>, <<"u">>, <<"v">>, <<"w">>, <<"x">>,
      <<"y">>, <<"z">>, <<"\\u00e0">>, <<"\\u00e1">>, <<"\\u00e2">>,
      <<"\\u00e3">>, <<"\\u00e4">>, <<"\\u00e5">>, <<"\\u00e6">>,
      <<"\\u00e7">>, <<"\\u00e8">>, <<"\\u00e9">>, <<"\\u00ea">>,
      <<"\\u00eb">>, <<"\\u00ec">>, <<"\\u00ed">>, <<"\\u00ee">>,
      <<"\\u00ef">>, <<"\\u00f0">>, <<"\\u00f1">>, <<"\\u00f2">>,
      <<"\\u00f3">>, <<"\\u00f4">>, <<"\\u00f5">>, <<"\\u00f6">>,
      <<"\\u00f8">>, <<"\\u00f9">>, <<"\\u00fa">>, <<"\\u00fb">>,
      <<"\\u00fc">>, <<"\\u00fd">>, <<"\\u00fe">>, <<"\\u0101">>,
      <<"\\u0103">>, <<"\\u0105">>, <<"\\u0107">>, <<"\\u0109">>,
      <<"\\u010b">>, <<"\\u010d">>, <<"\\u010f">>, <<"\\u0111">>,
      <<"\\u0113">>, <<"\\u0115">>, <<"\\u0117">>, <<"\\u0119">>,
      <<"\\u011b">>, <<"\\u011d">>, <<"\\u011f">>, <<"\\u0121">>,
      <<"\\u0123">>, <<"\\u0125">>, <<"\\u0127">>, <<"\\u0129">>,
      <<"\\u012b">>, <<"\\u012d">>, <<"\\u012f">>, <<"i", "\\u0307">>,
      <<"\\u0133">>, <<"\\u0135">>, <<"\\u0137">>, <<"\\u013a">>,
      <<"\\u013c">>, <<"\\u013e">>, <<"\\u0140">>, <<"\\u0142">>,
      <<"\\u0144">>, <<"\\u0146">>, <<"\\u0148">>, <<"\\u014b">>,
      <<"\\u014d">>, <<"\\u014f">>, <<"\\u0151">>, <<"\\u0153">>,
      <<"\\u0155">>, <<"\\u0157">>, <<"\\u0159">>, <<"\\u015b">>,
      <<"\\u015d">>, <<"\\u015f">>, <<"\\u0161">>, <<"\\u0163">>,
      <<"\\u0165">>, <<"\\u0167">>, <<"\\u0169">>, <<"\\u016b">>,
      <<"\\u016d">>, <<"\\u016f">>, <<"\\u0171">>, <<"\\u0173">>,
      <<"\\u0175">>, <<"\\u0177">>, <<"\\u00ff">>, <<"\\u017a">>,
      <<"\\u017c">>, <<"\\u017e">>, <<"\\u0253">>, <<"\\u0183">>,
      <<"\\u0185">>, <<"\\u0254">>, <<"\\u0188">>, <<"\\u0256">>,
      <<"\\u0257">>, <<"\\u018c">>, <<"\\u01dd">>, <<"\\u0259">>,
      <<"\\u025b">>, <<"\\u0192">>, <<"\\u0260">>, <<"\\u0263">>,
      <<"\\u0269">>, <<"\\u0268">>, <<"\\u0199">>, <<"\\u026f">>,
      <<"\\u0272">>, <<"\\u0275">>, <<"\\u01a1">>, <<"\\u01a3">>,
      <<"\\u01a5">>, <<"\\u0280">>, <<"\\u01a8">>, <<"\\u0283">>,
      <<"\\u01ad">>, <<"\\u0288">>, <<"\\u01b0">>, <<"\\u028a">>,
      <<"\\u028b">>, <<"\\u01b4">>, <<"\\u01b6">>, <<"\\u0292">>,
      <<"\\u01b9">>, <<"\\u01bd">>, <<"\\u01c6">>, <<"\\u01c6">>,
      <<"\\u01c9">>, <<"\\u01c9">>, <<"\\u01cc">>, <<"\\u01cc">>,
      <<"\\u01ce">>, <<"\\u01d0">>, <<"\\u01d2">>, <<"\\u01d4">>,
      <<"\\u01d6">>, <<"\\u01d8">>, <<"\\u01da">>, <<"\\u01dc">>,
      <<"\\u01df">>, <<"\\u01e1">>, <<"\\u01e3">>, <<"\\u01e5">>,
      <<"\\u01e7">>, <<"\\u01e9">>, <<"\\u01eb">>, <<"\\u01ed">>,
      <<"\\u01ef">>, <<"\\u01f3">>, <<"\\u01f3">>, <<"\\u01f5">>,
      <<"\\u0195">>, <<"\\u01bf">>, <<"\\u01f9">>, <<"\\u01fb">>,
      <<"\\u01fd">>, <<"\\u01ff">>, <<"\\u0201">>, <<"\\u0203">>,
      <<"\\u0205">>, <<"\\u0207">>, <<"\\u0209">>, <<"\\u020b">>,
      <<"\\u020d">>, <<"\\u020f">>, <<"\\u0211">>, <<"\\u0213">>,
      <<"\\u0215">>, <<"\\u0217">>, <<"\\u0219">>, <<"\\u021b">>,
      <<"\\u021d">>, <<"\\u021f">>, <<"\\u019e">>, <<"\\u0223">>,
      <<"\\u0225">>, <<"\\u0227">>, <<"\\u0229">>, <<"\\u022b">>,
      <<"\\u022d">>, <<"\\u022f">>, <<"\\u0231">>, <<"\\u0233">>,
      <<"\\u2c65">>, <<"\\u023c">>, <<"\\u019a">>, <<"\\u2c66">>,
      <<"\\u0242">>, <<"\\u0180">>, <<"\\u0289">>, <<"\\u028c">>,
      <<"\\u0247">>, <<"\\u0249">>, <<"\\u024b">>, <<"\\u024d">>,
      <<"\\u024f">>, <<"\\u0371">>, <<"\\u0373">>, <<"\\u0377">>,
      <<"\\u03f3">>, <<"\\u03ac">>, <<"\\u03ad">>, <<"\\u03ae">>,
      <<"\\u03af">>, <<"\\u03cc">>, <<"\\u03cd">>, <<"\\u03ce">>,
      <<"\\u03b1">>, <<"\\u03b2">>, <<"\\u03b3">>, <<"\\u03b4">>,
      <<"\\u03b5">>, <<"\\u03b6">>, <<"\\u03b7">>, <<"\\u03b8">>,
      <<"\\u03b9">>, <<"\\u03ba">>, <<"\\u03bb">>, <<"\\u03bc">>,
      <<"\\u03bd">>, <<"\\u03be">>, <<"\\u03bf">>, <<"\\u03c0">>,
      <<"\\u03c1">>, <<"\\u03c3">>, <<"\\u03c4">>, <<"\\u03c5">>,
      <<"\\u03c6">>, <<"\\u03c7">>, <<"\\u03c8">>, <<"\\u03c9">>,
      <<"\\u03ca">>, <<"\\u03cb">>, <<"\\u03d7">>, <<"\\u03d9">>,
      <<"\\u03db">>, <<"\\u03dd">>, <<"\\u03df">>, <<"\\u03e1">>,
      <<"\\u03e3">>, <<"\\u03e5">>, <<"\\u03e7">>, <<"\\u03e9">>,
      <<"\\u03eb">>, <<"\\u03ed">>, <<"\\u03ef">>, <<"\\u03b8">>,
      <<"\\u03f8">>, <<"\\u03f2">>, <<"\\u03fb">>, <<"\\u037b">>,
      <<"\\u037c">>, <<"\\u037d">>, <<"\\u0450">>, <<"\\u0451">>,
      <<"\\u0452">>, <<"\\u0453">>, <<"\\u0454">>, <<"\\u0455">>,
      <<"\\u0456">>, <<"\\u0457">>, <<"\\u0458">>, <<"\\u0459">>,
      <<"\\u045a">>, <<"\\u045b">>, <<"\\u045c">>, <<"\\u045d">>,
      <<"\\u045e">>, <<"\\u045f">>, <<"\\u0430">>, <<"\\u0431">>,
      <<"\\u0432">>, <<"\\u0433">>, <<"\\u0434">>, <<"\\u0435">>,
      <<"\\u0436">>, <<"\\u0437">>, <<"\\u0438">>, <<"\\u0439">>,
      <<"\\u043a">>, <<"\\u043b">>, <<"\\u043c">>, <<"\\u043d">>,
      <<"\\u043e">>, <<"\\u043f">>, <<"\\u0440">>, <<"\\u0441">>,
      <<"\\u0442">>, <<"\\u0443">>, <<"\\u0444">>, <<"\\u0445">>,
      <<"\\u0446">>, <<"\\u0447">>, <<"\\u0448">>, <<"\\u0449">>,
      <<"\\u044a">>, <<"\\u044b">>, <<"\\u044c">>, <<"\\u044d">>,
      <<"\\u044e">>, <<"\\u044f">>, <<"\\u0461">>, <<"\\u0463">>,
      <<"\\u0465">>, <<"\\u0467">>, <<"\\u0469">>, <<"\\u046b">>,
      <<"\\u046d">>, <<"\\u046f">>, <<"\\u0471">>, <<"\\u0473">>,
      <<"\\u0475">>, <<"\\u0477">>, <<"\\u0479">>, <<"\\u047b">>,
      <<"\\u047d">>, <<"\\u047f">>, <<"\\u0481">>, <<"\\u048b">>,
      <<"\\u048d">>, <<"\\u048f">>, <<"\\u0491">>, <<"\\u0493">>,
      <<"\\u0495">>, <<"\\u0497">>, <<"\\u0499">>, <<"\\u049b">>,
      <<"\\u049d">>, <<"\\u049f">>, <<"\\u04a1">>, <<"\\u04a3">>,
      <<"\\u04a5">>, <<"\\u04a7">>, <<"\\u04a9">>, <<"\\u04ab">>,
      <<"\\u04ad">>, <<"\\u04af">>, <<"\\u04b1">>, <<"\\u04b3">>,
      <<"\\u04b5">>, <<"\\u04b7">>, <<"\\u04b9">>, <<"\\u04bb">>,
      <<"\\u04bd">>, <<"\\u04bf">>, <<"\\u04cf">>, <<"\\u04c2">>,
      <<"\\u04c4">>, <<"\\u04c6">>, <<"\\u04c8">>, <<"\\u04ca">>,
      <<"\\u04cc">>, <<"\\u04ce">>, <<"\\u04d1">>, <<"\\u04d3">>,
      <<"\\u04d5">>, <<"\\u04d7">>, <<"\\u04d9">>, <<"\\u04db">>,
      <<"\\u04dd">>, <<"\\u04df">>, <<"\\u04e1">>, <<"\\u04e3">>,
      <<"\\u04e5">>, <<"\\u04e7">>, <<"\\u04e9">>, <<"\\u04eb">>,
      <<"\\u04ed">>, <<"\\u04ef">>, <<"\\u04f1">>, <<"\\u04f3">>,
      <<"\\u04f5">>, <<"\\u04f7">>, <<"\\u04f9">>, <<"\\u04fb">>,
      <<"\\u04fd">>, <<"\\u04ff">>, <<"\\u0501">>, <<"\\u0503">>,
      <<"\\u0505">>, <<"\\u0507">>, <<"\\u0509">>, <<"\\u050b">>,
      <<"\\u050d">>, <<"\\u050f">>, <<"\\u0511">>, <<"\\u0513">>,
      <<"\\u0515">>, <<"\\u0517">>, <<"\\u0519">>, <<"\\u051b">>,
      <<"\\u051d">>, <<"\\u051f">>, <<"\\u0521">>, <<"\\u0523">>,
      <<"\\u0525">>, <<"\\u0527">>, <<"\\u0529">>, <<"\\u052b">>,
      <<"\\u052d">>, <<"\\u052f">>, <<"\\u0561">>, <<"\\u0562">>,
      <<"\\u0563">>, <<"\\u0564">>, <<"\\u0565">>, <<"\\u0566">>,
      <<"\\u0567">>, <<"\\u0568">>, <<"\\u0569">>, <<"\\u056a">>,
      <<"\\u056b">>, <<"\\u056c">>, <<"\\u056d">>, <<"\\u056e">>,
      <<"\\u056f">>, <<"\\u0570">>, <<"\\u0571">>, <<"\\u0572">>,
      <<"\\u0573">>, <<"\\u0574">>, <<"\\u0575">>, <<"\\u0576">>,
      <<"\\u0577">>, <<"\\u0578">>, <<"\\u0579">>, <<"\\u057a">>,
      <<"\\u057b">>, <<"\\u057c">>, <<"\\u057d">>, <<"\\u057e">>,
      <<"\\u057f">>, <<"\\u0580">>, <<"\\u0581">>, <<"\\u0582">>,
      <<"\\u0583">>, <<"\\u0584">>, <<"\\u0585">>, <<"\\u0586">>,
      <<"\\u2d00">>, <<"\\u2d01">>, <<"\\u2d02">>, <<"\\u2d03">>,
      <<"\\u2d04">>, <<"\\u2d05">>, <<"\\u2d06">>, <<"\\u2d07">>,
      <<"\\u2d08">>, <<"\\u2d09">>, <<"\\u2d0a">>, <<"\\u2d0b">>,
      <<"\\u2d0c">>, <<"\\u2d0d">>, <<"\\u2d0e">>, <<"\\u2d0f">>,
      <<"\\u2d10">>, <<"\\u2d11">>, <<"\\u2d12">>, <<"\\u2d13">>,
      <<"\\u2d14">>, <<"\\u2d15">>, <<"\\u2d16">>, <<"\\u2d17">>,
      <<"\\u2d18">>, <<"\\u2d19">>, <<"\\u2d1a">>, <<"\\u2d1b">>,
      <<"\\u2d1c">>, <<"\\u2d1d">>, <<"\\u2d1e">>, <<"\\u2d1f">>,
      <<"\\u2d20">>, <<"\\u2d21">>, <<"\\u2d22">>, <<"\\u2d23">>,
      <<"\\u2d24">>, <<"\\u2d25">>, <<"\\u2d27">>, <<"\\u2d2d">>,
      <<"\\uab70">>, <<"\\uab71">>, <<"\\uab72">>, <<"\\uab73">>,
      <<"\\uab74">>, <<"\\uab75">>, <<"\\uab76">>, <<"\\uab77">>,
      <<"\\uab78">>, <<"\\uab79">>, <<"\\uab7a">>, <<"\\uab7b">>,
      <<"\\uab7c">>, <<"\\uab7d">>, <<"\\uab7e">>, <<"\\uab7f">>,
      <<"\\uab80">>, <<"\\uab81">>, <<"\\uab82">>, <<"\\uab83">>,
      <<"\\uab84">>, <<"\\uab85">>, <<"\\uab86">>, <<"\\uab87">>,
      <<"\\uab88">>, <<"\\uab89">>, <<"\\uab8a">>, <<"\\uab8b">>,
      <<"\\uab8c">>, <<"\\uab8d">>, <<"\\uab8e">>, <<"\\uab8f">>,
      <<"\\uab90">>, <<"\\uab91">>, <<"\\uab92">>, <<"\\uab93">>,
      <<"\\uab94">>, <<"\\uab95">>, <<"\\uab96">>, <<"\\uab97">>,
      <<"\\uab98">>, <<"\\uab99">>, <<"\\uab9a">>, <<"\\uab9b">>,
      <<"\\uab9c">>, <<"\\uab9d">>, <<"\\uab9e">>, <<"\\uab9f">>,
      <<"\\uaba0">>, <<"\\uaba1">>, <<"\\uaba2">>, <<"\\uaba3">>,
      <<"\\uaba4">>, <<"\\uaba5">>, <<"\\uaba6">>, <<"\\uaba7">>,
      <<"\\uaba8">>, <<"\\uaba9">>, <<"\\uabaa">>, <<"\\uabab">>,
      <<"\\uabac">>, <<"\\uabad">>, <<"\\uabae">>, <<"\\uabaf">>,
      <<"\\uabb0">>, <<"\\uabb1">>, <<"\\uabb2">>, <<"\\uabb3">>,
      <<"\\uabb4">>, <<"\\uabb5">>, <<"\\uabb6">>, <<"\\uabb7">>,
      <<"\\uabb8">>, <<"\\uabb9">>, <<"\\uabba">>, <<"\\uabbb">>,
      <<"\\uabbc">>, <<"\\uabbd">>, <<"\\uabbe">>, <<"\\uabbf">>,
      <<"\\u13f8">>, <<"\\u13f9">>, <<"\\u13fa">>, <<"\\u13fb">>,
      <<"\\u13fc">>, <<"\\u13fd">>, <<"\\u10d0">>, <<"\\u10d1">>,
      <<"\\u10d2">>, <<"\\u10d3">>, <<"\\u10d4">>, <<"\\u10d5">>,
      <<"\\u10d6">>, <<"\\u10d7">>, <<"\\u10d8">>, <<"\\u10d9">>,
      <<"\\u10da">>, <<"\\u10db">>, <<"\\u10dc">>, <<"\\u10dd">>,
      <<"\\u10de">>, <<"\\u10df">>, <<"\\u10e0">>, <<"\\u10e1">>,
      <<"\\u10e2">>, <<"\\u10e3">>, <<"\\u10e4">>, <<"\\u10e5">>,
      <<"\\u10e6">>, <<"\\u10e7">>, <<"\\u10e8">>, <<"\\u10e9">>,
      <<"\\u10ea">>, <<"\\u10eb">>, <<"\\u10ec">>, <<"\\u10ed">>,
      <<"\\u10ee">>, <<"\\u10ef">>, <<"\\u10f0">>, <<"\\u10f1">>,
      <<"\\u10f2">>, <<"\\u10f3">>, <<"\\u10f4">>, <<"\\u10f5">>,
      <<"\\u10f6">>, <<"\\u10f7">>, <<"\\u10f8">>, <<"\\u10f9">>,
      <<"\\u10fa">>, <<"\\u10fd">>, <<"\\u10fe">>, <<"\\u10ff">>,
      <<"\\u1e01">>, <<"\\u1e03">>, <<"\\u1e05">>, <<"\\u1e07">>,
      <<"\\u1e09">>, <<"\\u1e0b">>, <<"\\u1e0d">>, <<"\\u1e0f">>,
      <<"\\u1e11">>, <<"\\u1e13">>, <<"\\u1e15">>, <<"\\u1e17">>,
      <<"\\u1e19">>, <<"\\u1e1b">>, <<"\\u1e1d">>, <<"\\u1e1f">>,
      <<"\\u1e21">>, <<"\\u1e23">>, <<"\\u1e25">>, <<"\\u1e27">>,
      <<"\\u1e29">>, <<"\\u1e2b">>, <<"\\u1e2d">>, <<"\\u1e2f">>,
      <<"\\u1e31">>, <<"\\u1e33">>, <<"\\u1e35">>, <<"\\u1e37">>,
      <<"\\u1e39">>, <<"\\u1e3b">>, <<"\\u1e3d">>, <<"\\u1e3f">>,
      <<"\\u1e41">>, <<"\\u1e43">>, <<"\\u1e45">>, <<"\\u1e47">>,
      <<"\\u1e49">>, <<"\\u1e4b">>, <<"\\u1e4d">>, <<"\\u1e4f">>,
      <<"\\u1e51">>, <<"\\u1e53">>, <<"\\u1e55">>, <<"\\u1e57">>,
      <<"\\u1e59">>, <<"\\u1e5b">>, <<"\\u1e5d">>, <<"\\u1e5f">>,
      <<"\\u1e61">>, <<"\\u1e63">>, <<"\\u1e65">>, <<"\\u1e67">>,
      <<"\\u1e69">>, <<"\\u1e6b">>, <<"\\u1e6d">>, <<"\\u1e6f">>,
      <<"\\u1e71">>, <<"\\u1e73">>, <<"\\u1e75">>, <<"\\u1e77">>,
      <<"\\u1e79">>, <<"\\u1e7b">>, <<"\\u1e7d">>, <<"\\u1e7f">>,
      <<"\\u1e81">>, <<"\\u1e83">>, <<"\\u1e85">>, <<"\\u1e87">>,
      <<"\\u1e89">>, <<"\\u1e8b">>, <<"\\u1e8d">>, <<"\\u1e8f">>,
      <<"\\u1e91">>, <<"\\u1e93">>, <<"\\u1e95">>, <<"\\u00df">>,
      <<"\\u1ea1">>, <<"\\u1ea3">>, <<"\\u1ea5">>, <<"\\u1ea7">>,
      <<"\\u1ea9">>, <<"\\u1eab">>, <<"\\u1ead">>, <<"\\u1eaf">>,
      <<"\\u1eb1">>, <<"\\u1eb3">>, <<"\\u1eb5">>, <<"\\u1eb7">>,
      <<"\\u1eb9">>, <<"\\u1ebb">>, <<"\\u1ebd">>, <<"\\u1ebf">>,
      <<"\\u1ec1">>, <<"\\u1ec3">>, <<"\\u1ec5">>, <<"\\u1ec7">>,
      <<"\\u1ec9">>, <<"\\u1ecb">>, <<"\\u1ecd">>, <<"\\u1ecf">>,
      <<"\\u1ed1">>, <<"\\u1ed3">>, <<"\\u1ed5">>, <<"\\u1ed7">>,
      <<"\\u1ed9">>, <<"\\u1edb">>, <<"\\u1edd">>, <<"\\u1edf">>,
      <<"\\u1ee1">>, <<"\\u1ee3">>, <<"\\u1ee5">>, <<"\\u1ee7">>,
      <<"\\u1ee9">>, <<"\\u1eeb">>, <<"\\u1eed">>, <<"\\u1eef">>,
      <<"\\u1ef1">>, <<"\\u1ef3">>, <<"\\u1ef5">>, <<"\\u1ef7">>,
      <<"\\u1ef9">>, <<"\\u1efb">>, <<"\\u1efd">>, <<"\\u1eff">>,
      <<"\\u1f00">>, <<"\\u1f01">>, <<"\\u1f02">>, <<"\\u1f03">>,
      <<"\\u1f04">>, <<"\\u1f05">>, <<"\\u1f06">>, <<"\\u1f07">>,
      <<"\\u1f10">>, <<"\\u1f11">>, <<"\\u1f12">>, <<"\\u1f13">>,
      <<"\\u1f14">>, <<"\\u1f15">>, <<"\\u1f20">>, <<"\\u1f21">>,
      <<"\\u1f22">>, <<"\\u1f23">>, <<"\\u1f24">>, <<"\\u1f25">>,
      <<"\\u1f26">>, <<"\\u1f27">>, <<"\\u1f30">>, <<"\\u1f31">>,
      <<"\\u1f32">>, <<"\\u1f33">>, <<"\\u1f34">>, <<"\\u1f35">>,
      <<"\\u1f36">>, <<"\\u1f37">>, <<"\\u1f40">>, <<"\\u1f41">>,
      <<"\\u1f42">>, <<"\\u1f43">>, <<"\\u1f44">>, <<"\\u1f45">>,
      <<"\\u1f51">>, <<"\\u1f53">>, <<"\\u1f55">>, <<"\\u1f57">>,
      <<"\\u1f60">>, <<"\\u1f61">>, <<"\\u1f62">>, <<"\\u1f63">>,
      <<"\\u1f64">>, <<"\\u1f65">>, <<"\\u1f66">>, <<"\\u1f67">>,
      <<"\\u1f80">>, <<"\\u1f81">>, <<"\\u1f82">>, <<"\\u1f83">>,
      <<"\\u1f84">>, <<"\\u1f85">>, <<"\\u1f86">>, <<"\\u1f87">>,
      <<"\\u1f90">>, <<"\\u1f91">>, <<"\\u1f92">>, <<"\\u1f93">>,
      <<"\\u1f94">>, <<"\\u1f95">>, <<"\\u1f96">>, <<"\\u1f97">>,
      <<"\\u1fa0">>, <<"\\u1fa1">>, <<"\\u1fa2">>, <<"\\u1fa3">>,
      <<"\\u1fa4">>, <<"\\u1fa5">>, <<"\\u1fa6">>, <<"\\u1fa7">>,
      <<"\\u1fb0">>, <<"\\u1fb1">>, <<"\\u1f70">>, <<"\\u1f71">>,
      <<"\\u1fb3">>, <<"\\u1f72">>, <<"\\u1f73">>, <<"\\u1f74">>,
      <<"\\u1f75">>, <<"\\u1fc3">>, <<"\\u1fd0">>, <<"\\u1fd1">>,
      <<"\\u1f76">>, <<"\\u1f77">>, <<"\\u1fe0">>, <<"\\u1fe1">>,
      <<"\\u1f7a">>, <<"\\u1f7b">>, <<"\\u1fe5">>, <<"\\u1f78">>,
      <<"\\u1f79">>, <<"\\u1f7c">>, <<"\\u1f7d">>, <<"\\u1ff3">>,
      <<"\\u03c9">>, <<"k">>, <<"\\u00e5">>, <<"\\u214e">>, <<"\\u2170">>,
      <<"\\u2171">>, <<"\\u2172">>, <<"\\u2173">>, <<"\\u2174">>,
      <<"\\u2175">>, <<"\\u2176">>, <<"\\u2177">>, <<"\\u2178">>,
      <<"\\u2179">>, <<"\\u217a">>, <<"\\u217b">>, <<"\\u217c">>,
      <<"\\u217d">>, <<"\\u217e">>, <<"\\u217f">>, <<"\\u2184">>,
      <<"\\u24d0">>, <<"\\u24d1">>, <<"\\u24d2">>, <<"\\u24d3">>,
      <<"\\u24d4">>, <<"\\u24d5">>, <<"\\u24d6">>, <<"\\u24d7">>,
      <<"\\u24d8">>, <<"\\u24d9">>, <<"\\u24da">>, <<"\\u24db">>,
      <<"\\u24dc">>, <<"\\u24dd">>, <<"\\u24de">>, <<"\\u24df">>,
      <<"\\u24e0">>, <<"\\u24e1">>, <<"\\u24e2">>, <<"\\u24e3">>,
      <<"\\u24e4">>, <<"\\u24e5">>, <<"\\u24e6">>, <<"\\u24e7">>,
      <<"\\u24e8">>, <<"\\u24e9">>, <<"\\u2c30">>, <<"\\u2c31">>,
      <<"\\u2c32">>, <<"\\u2c33">>, <<"\\u2c34">>, <<"\\u2c35">>,
      <<"\\u2c36">>, <<"\\u2c37">>, <<"\\u2c38">>, <<"\\u2c39">>,
      <<"\\u2c3a">>, <<"\\u2c3b">>, <<"\\u2c3c">>, <<"\\u2c3d">>,
      <<"\\u2c3e">>, <<"\\u2c3f">>, <<"\\u2c40">>, <<"\\u2c41">>,
      <<"\\u2c42">>, <<"\\u2c43">>, <<"\\u2c44">>, <<"\\u2c45">>,
      <<"\\u2c46">>, <<"\\u2c47">>, <<"\\u2c48">>, <<"\\u2c49">>,
      <<"\\u2c4a">>, <<"\\u2c4b">>, <<"\\u2c4c">>, <<"\\u2c4d">>,
      <<"\\u2c4e">>, <<"\\u2c4f">>, <<"\\u2c50">>, <<"\\u2c51">>,
      <<"\\u2c52">>, <<"\\u2c53">>, <<"\\u2c54">>, <<"\\u2c55">>,
      <<"\\u2c56">>, <<"\\u2c57">>, <<"\\u2c58">>, <<"\\u2c59">>,
      <<"\\u2c5a">>, <<"\\u2c5b">>, <<"\\u2c5c">>, <<"\\u2c5d">>,
      <<"\\u2c5e">>, <<"\\u2c5f">>, <<"\\u2c61">>, <<"\\u026b">>,
      <<"\\u1d7d">>, <<"\\u027d">>, <<"\\u2c68">>, <<"\\u2c6a">>,
      <<"\\u2c6c">>, <<"\\u0251">>, <<"\\u0271">>, <<"\\u0250">>,
      <<"\\u0252">>, <<"\\u2c73">>, <<"\\u2c76">>, <<"\\u023f">>,
      <<"\\u0240">>, <<"\\u2c81">>, <<"\\u2c83">>, <<"\\u2c85">>,
      <<"\\u2c87">>, <<"\\u2c89">>, <<"\\u2c8b">>, <<"\\u2c8d">>,
      <<"\\u2c8f">>, <<"\\u2c91">>, <<"\\u2c93">>, <<"\\u2c95">>,
      <<"\\u2c97">>, <<"\\u2c99">>, <<"\\u2c9b">>, <<"\\u2c9d">>,
      <<"\\u2c9f">>, <<"\\u2ca1">>, <<"\\u2ca3">>, <<"\\u2ca5">>,
      <<"\\u2ca7">>, <<"\\u2ca9">>, <<"\\u2cab">>, <<"\\u2cad">>,
      <<"\\u2caf">>, <<"\\u2cb1">>, <<"\\u2cb3">>, <<"\\u2cb5">>,
      <<"\\u2cb7">>, <<"\\u2cb9">>, <<"\\u2cbb">>, <<"\\u2cbd">>,
      <<"\\u2cbf">>, <<"\\u2cc1">>, <<"\\u2cc3">>, <<"\\u2cc5">>,
      <<"\\u2cc7">>, <<"\\u2cc9">>, <<"\\u2ccb">>, <<"\\u2ccd">>,
      <<"\\u2ccf">>, <<"\\u2cd1">>, <<"\\u2cd3">>, <<"\\u2cd5">>,
      <<"\\u2cd7">>, <<"\\u2cd9">>, <<"\\u2cdb">>, <<"\\u2cdd">>,
      <<"\\u2cdf">>, <<"\\u2ce1">>, <<"\\u2ce3">>, <<"\\u2cec">>,
      <<"\\u2cee">>, <<"\\u2cf3">>, <<"\\ua641">>, <<"\\ua643">>,
      <<"\\ua645">>, <<"\\ua647">>, <<"\\ua649">>, <<"\\ua64b">>,
      <<"\\ua64d">>, <<"\\ua64f">>, <<"\\ua651">>, <<"\\ua653">>,
      <<"\\ua655">>, <<"\\ua657">>, <<"\\ua659">>, <<"\\ua65b">>,
      <<"\\ua65d">>, <<"\\ua65f">>, <<"\\ua661">>, <<"\\ua663">>,
      <<"\\ua665">>, <<"\\ua667">>, <<"\\ua669">>, <<"\\ua66b">>,
      <<"\\ua66d">>, <<"\\ua681">>, <<"\\ua683">>, <<"\\ua685">>,
      <<"\\ua687">>, <<"\\ua689">>, <<"\\ua68b">>, <<"\\ua68d">>,
      <<"\\ua68f">>, <<"\\ua691">>, <<"\\ua693">>, <<"\\ua695">>,
      <<"\\ua697">>, <<"\\ua699">>, <<"\\ua69b">>, <<"\\ua723">>,
      <<"\\ua725">>, <<"\\ua727">>, <<"\\ua729">>, <<"\\ua72b">>,
      <<"\\ua72d">>, <<"\\ua72f">>, <<"\\ua733">>, <<"\\ua735">>,
      <<"\\ua737">>, <<"\\ua739">>, <<"\\ua73b">>, <<"\\ua73d">>,
      <<"\\ua73f">>, <<"\\ua741">>, <<"\\ua743">>, <<"\\ua745">>,
      <<"\\ua747">>, <<"\\ua749">>, <<"\\ua74b">>, <<"\\ua74d">>,
      <<"\\ua74f">>, <<"\\ua751">>, <<"\\ua753">>, <<"\\ua755">>,
      <<"\\ua757">>, <<"\\ua759">>, <<"\\ua75b">>, <<"\\ua75d">>,
      <<"\\ua75f">>, <<"\\ua761">>, <<"\\ua763">>, <<"\\ua765">>,
      <<"\\ua767">>, <<"\\ua769">>, <<"\\ua76b">>, <<"\\ua76d">>,
      <<"\\ua76f">>, <<"\\ua77a">>, <<"\\ua77c">>, <<"\\u1d79">>,
      <<"\\ua77f">>, <<"\\ua781">>, <<"\\ua783">>, <<"\\ua785">>,
      <<"\\ua787">>, <<"\\ua78c">>, <<"\\u0265">>, <<"\\ua791">>,
      <<"\\ua793">>, <<"\\ua797">>, <<"\\ua799">>, <<"\\ua79b">>,
      <<"\\ua79d">>, <<"\\ua79f">>, <<"\\ua7a1">>, <<"\\ua7a3">>,
      <<"\\ua7a5">>, <<"\\ua7a7">>, <<"\\ua7a9">>, <<"\\u0266">>,
      <<"\\u025c">>, <<"\\u0261">>, <<"\\u026c">>, <<"\\u026a">>,
      <<"\\u029e">>, <<"\\u0287">>, <<"\\u029d">>, <<"\\uab53">>,
      <<"\\ua7b5">>, <<"\\ua7b7">>, <<"\\ua7b9">>, <<"\\ua7bb">>,
      <<"\\ua7bd">>, <<"\\ua7bf">>, <<"\\ua7c1">>, <<"\\ua7c3">>,
      <<"\\ua794">>, <<"\\u0282">>, <<"\\u1d8e">>, <<"\\ua7c8">>,
      <<"\\ua7ca">>, <<"\\ua7d1">>, <<"\\ua7d7">>, <<"\\ua7d9">>,
      <<"\\ua7f6">>, <<"\\uff41">>, <<"\\uff42">>, <<"\\uff43">>,
      <<"\\uff44">>, <<"\\uff45">>, <<"\\uff46">>, <<"\\uff47">>,
      <<"\\uff48">>, <<"\\uff49">>, <<"\\uff4a">>, <<"\\uff4b">>,
      <<"\\uff4c">>, <<"\\uff4d">>, <<"\\uff4e">>, <<"\\uff4f">>,
      <<"\\uff50">>, <<"\\uff51">>, <<"\\uff52">>, <<"\\uff53">>,
      <<"\\uff54">>, <<"\\uff55">>, <<"\\uff56">>, <<"\\uff57">>,
      <<"\\uff58">>, <<"\\uff59">>, <<"\\uff5a">>, <<"\\ud801\\udc28">>,
      <<"\\ud801\\udc29">>, <<"\\ud801\\udc2a">>, <<"\\ud801\\udc2b">>,
      <<"\\ud801\\udc2c">>, <<"\\ud801\\udc2d">>, <<"\\ud801\\udc2e">>,
      <<"\\ud801\\udc2f">>, <<"\\ud801\\udc30">>, <<"\\ud801\\udc31">>,
      <<"\\ud801\\udc32">>, <<"\\ud801\\udc33">>, <<"\\ud801\\udc34">>,
      <<"\\ud801\\udc35">>, <<"\\ud801\\udc36">>, <<"\\ud801\\udc37">>,
      <<"\\ud801\\udc38">>, <<"\\ud801\\udc39">>, <<"\\ud801\\udc3a">>,
      <<"\\ud801\\udc3b">>, <<"\\ud801\\udc3c">>, <<"\\ud801\\udc3d">>,
      <<"\\ud801\\udc3e">>, <<"\\ud801\\udc3f">>, <<"\\ud801\\udc40">>,
      <<"\\ud801\\udc41">>, <<"\\ud801\\udc42">>, <<"\\ud801\\udc43">>,
      <<"\\ud801\\udc44">>, <<"\\ud801\\udc45">>, <<"\\ud801\\udc46">>,
      <<"\\ud801\\udc47">>, <<"\\ud801\\udc48">>, <<"\\ud801\\udc49">>,
      <<"\\ud801\\udc4a">>, <<"\\ud801\\udc4b">>, <<"\\ud801\\udc4c">>,
      <<"\\ud801\\udc4d">>, <<"\\ud801\\udc4e">>, <<"\\ud801\\udc4f">>,
      <<"\\ud801\\udcd8">>, <<"\\ud801\\udcd9">>, <<"\\ud801\\udcda">>,
      <<"\\ud801\\udcdb">>, <<"\\ud801\\udcdc">>, <<"\\ud801\\udcdd">>,
      <<"\\ud801\\udcde">>, <<"\\ud801\\udcdf">>, <<"\\ud801\\udce0">>,
      <<"\\ud801\\udce1">>, <<"\\ud801\\udce2">>, <<"\\ud801\\udce3">>,
      <<"\\ud801\\udce4">>, <<"\\ud801\\udce5">>, <<"\\ud801\\udce6">>,
      <<"\\ud801\\udce7">>, <<"\\ud801\\udce8">>, <<"\\ud801\\udce9">>,
      <<"\\ud801\\udcea">>, <<"\\ud801\\udceb">>, <<"\\ud801\\udcec">>,
      <<"\\ud801\\udced">>, <<"\\ud801\\udcee">>, <<"\\ud801\\udcef">>,
      <<"\\ud801\\udcf0">>, <<"\\ud801\\udcf1">>, <<"\\ud801\\udcf2">>,
      <<"\\ud801\\udcf3">>, <<"\\ud801\\udcf4">>, <<"\\ud801\\udcf5">>,
      <<"\\ud801\\udcf6">>, <<"\\ud801\\udcf7">>, <<"\\ud801\\udcf8">>,
      <<"\\ud801\\udcf9">>, <<"\\ud801\\udcfa">>, <<"\\ud801\\udcfb">>,
      <<"\\ud801\\udd97">>, <<"\\ud801\\udd98">>, <<"\\ud801\\udd99">>,
      <<"\\ud801\\udd9a">>, <<"\\ud801\\udd9b">>, <<"\\ud801\\udd9c">>,
      <<"\\ud801\\udd9d">>, <<"\\ud801\\udd9e">>, <<"\\ud801\\udd9f">>,
      <<"\\ud801\\udda0">>, <<"\\ud801\\udda1">>, <<"\\ud801\\udda3">>,
      <<"\\ud801\\udda4">>, <<"\\ud801\\udda5">>, <<"\\ud801\\udda6">>,
      <<"\\ud801\\udda7">>, <<"\\ud801\\udda8">>, <<"\\ud801\\udda9">>,
      <<"\\ud801\\uddaa">>, <<"\\ud801\\uddab">>, <<"\\ud801\\uddac">>,
      <<"\\ud801\\uddad">>, <<"\\ud801\\uddae">>, <<"\\ud801\\uddaf">>,
      <<"\\ud801\\uddb0">>, <<"\\ud801\\uddb1">>, <<"\\ud801\\uddb3">>,
      <<"\\ud801\\uddb4">>, <<"\\ud801\\uddb5">>, <<"\\ud801\\uddb6">>,
      <<"\\ud801\\uddb7">>, <<"\\ud801\\uddb8">>, <<"\\ud801\\uddb9">>,
      <<"\\ud801\\uddbb">>, <<"\\ud801\\uddbc">>, <<"\\ud803\\udcc0">>,
      <<"\\ud803\\udcc1">>, <<"\\ud803\\udcc2">>, <<"\\ud803\\udcc3">>,
      <<"\\ud803\\udcc4">>, <<"\\ud803\\udcc5">>, <<"\\ud803\\udcc6">>,
      <<"\\ud803\\udcc7">>, <<"\\ud803\\udcc8">>, <<"\\ud803\\udcc9">>,
      <<"\\ud803\\udcca">>, <<"\\ud803\\udccb">>, <<"\\ud803\\udccc">>,
      <<"\\ud803\\udccd">>, <<"\\ud803\\udcce">>, <<"\\ud803\\udccf">>,
      <<"\\ud803\\udcd0">>, <<"\\ud803\\udcd1">>, <<"\\ud803\\udcd2">>,
      <<"\\ud803\\udcd3">>, <<"\\ud803\\udcd4">>, <<"\\ud803\\udcd5">>,
      <<"\\ud803\\udcd6">>, <<"\\ud803\\udcd7">>, <<"\\ud803\\udcd8">>,
      <<"\\ud803\\udcd9">>, <<"\\ud803\\udcda">>, <<"\\ud803\\udcdb">>,
      <<"\\ud803\\udcdc">>, <<"\\ud803\\udcdd">>, <<"\\ud803\\udcde">>,
      <<"\\ud803\\udcdf">>, <<"\\ud803\\udce0">>, <<"\\ud803\\udce1">>,
      <<"\\ud803\\udce2">>, <<"\\ud803\\udce3">>, <<"\\ud803\\udce4">>,
      <<"\\ud803\\udce5">>, <<"\\ud803\\udce6">>, <<"\\ud803\\udce7">>,
      <<"\\ud803\\udce8">>, <<"\\ud803\\udce9">>, <<"\\ud803\\udcea">>,
      <<"\\ud803\\udceb">>, <<"\\ud803\\udcec">>, <<"\\ud803\\udced">>,
      <<"\\ud803\\udcee">>, <<"\\ud803\\udcef">>, <<"\\ud803\\udcf0">>,
      <<"\\ud803\\udcf1">>, <<"\\ud803\\udcf2">>, <<"\\ud806\\udcc0">>,
      <<"\\ud806\\udcc1">>, <<"\\ud806\\udcc2">>, <<"\\ud806\\udcc3">>,
      <<"\\ud806\\udcc4">>, <<"\\ud806\\udcc5">>, <<"\\ud806\\udcc6">>,
      <<"\\ud806\\udcc7">>, <<"\\ud806\\udcc8">>, <<"\\ud806\\udcc9">>,
      <<"\\ud806\\udcca">>, <<"\\ud806\\udccb">>, <<"\\ud806\\udccc">>,
      <<"\\ud806\\udccd">>, <<"\\ud806\\udcce">>, <<"\\ud806\\udccf">>,
      <<"\\ud806\\udcd0">>, <<"\\ud806\\udcd1">>, <<"\\ud806\\udcd2">>,
      <<"\\ud806\\udcd3">>, <<"\\ud806\\udcd4">>, <<"\\ud806\\udcd5">>,
      <<"\\ud806\\udcd6">>, <<"\\ud806\\udcd7">>, <<"\\ud806\\udcd8">>,
      <<"\\ud806\\udcd9">>, <<"\\ud806\\udcda">>, <<"\\ud806\\udcdb">>,
      <<"\\ud806\\udcdc">>, <<"\\ud806\\udcdd">>, <<"\\ud806\\udcde">>,
      <<"\\ud806\\udcdf">>, <<"\\ud81b\\ude60">>, <<"\\ud81b\\ude61">>,
      <<"\\ud81b\\ude62">>, <<"\\ud81b\\ude63">>, <<"\\ud81b\\ude64">>,
      <<"\\ud81b\\ude65">>, <<"\\ud81b\\ude66">>, <<"\\ud81b\\ude67">>,
      <<"\\ud81b\\ude68">>, <<"\\ud81b\\ude69">>, <<"\\ud81b\\ude6a">>,
      <<"\\ud81b\\ude6b">>, <<"\\ud81b\\ude6c">>, <<"\\ud81b\\ude6d">>,
      <<"\\ud81b\\ude6e">>, <<"\\ud81b\\ude6f">>, <<"\\ud81b\\ude70">>,
      <<"\\ud81b\\ude71">>, <<"\\ud81b\\ude72">>, <<"\\ud81b\\ude73">>,
      <<"\\ud81b\\ude74">>, <<"\\ud81b\\ude75">>, <<"\\ud81b\\ude76">>,
      <<"\\ud81b\\ude77">>, <<"\\ud81b\\ude78">>, <<"\\ud81b\\ude79">>,
      <<"\\ud81b\\ude7a">>, <<"\\ud81b\\ude7b">>, <<"\\ud81b\\ude7c">>,
      <<"\\ud81b\\ude7d">>, <<"\\ud81b\\ude7e">>, <<"\\ud81b\\ude7f">>,
      <<"\\ud83a\\udd22">>, <<"\\ud83a\\udd23">>, <<"\\ud83a\\udd24">>,
      <<"\\ud83a\\udd25">>, <<"\\ud83a\\udd26">>, <<"\\ud83a\\udd27">>,
      <<"\\ud83a\\udd28">>, <<"\\ud83a\\udd29">>, <<"\\ud83a\\udd2a">>,
      <<"\\ud83a\\udd2b">>, <<"\\ud83a\\udd2c">>, <<"\\ud83a\\udd2d">>,
      <<"\\ud83a\\udd2e">>, <<"\\ud83a\\udd2f">>, <<"\\ud83a\\udd30">>,
      <<"\\ud83a\\udd31">>, <<"\\ud83a\\udd32">>, <<"\\ud83a\\udd33">>,
      <<"\\ud83a\\udd34">>, <<"\\ud83a\\udd35">>, <<"\\ud83a\\udd36">>,
      <<"\\ud83a\\udd37">>, <<"\\ud83a\\udd38">>, <<"\\ud83a\\udd39">>,
      <<"\\ud83a\\udd3a">>, <<"\\ud83a\\udd3b">>, <<"\\ud83a\\udd3c">>,
      <<"\\ud83a\\udd3d">>, <<"\\ud83a\\udd3e">>, <<"\\ud83a\\udd3f">>,
      <<"\\ud83a\\udd40">>, <<"\\ud83a\\udd41">>, <<"\\ud83a\\udd42">>,
      <<"\\ud83a\\udd43">>>>

\* the cased characters that are not case-ignorable
CasedLetters ==
    {"A", "B", "C", "D", "E", "F", "G", "H", "I", "J", "K", "L", "M", "N",
      "O", "P", "Q", "R", "S", "T", "U", "V", "W", "X", "Y", "Z", "a", "b",
      "c", "d", "e", "f", "g", "h", "i", "j", "k", "l", "m", "n", "o", "p",
      "q", "r", "s", "t", "u", "v", "w", "x", "y", "z", "\\u00aa", "\\u00b5",
      "\\u00ba", "\\u00c0", "\\u00c1", "\\u00c2", "\\u00c3", "\\u00c4",
      "\\u00c5", "\\u00c6", "\\u00c7", "\\u00c8", "\\u00c9", "\\u00ca",
      "\\u00cb", "\\u00cc", "\\u00cd", "\\u00ce", "\\u00cf", "\\u00d0",
      "\\u00d1", "\\u00d2", "\\u00d3", "\\u00d4", "\\u00d5", "\\u00d6",
      "\\u00d8", "\\u00d9", "\\u00da", "\\u00db", "\\u00dc", "\\u00dd",
      "\\u00de", "\\u00df", "\\u00e0", "\\u00e1", "\\u00e2", "\\u00e3",
      "\\u00e4", "\\u00e5", "\\u00e6", "\\u00e7", "\\u00e8", "\\u00e9",
      "\\u00ea", "\\u00eb", "\\u00ec", "\\u00ed", "\\u00ee", "\\u00ef",
      "\\u00f0", "\\u00f1", "\\u00f2", "\\u00f3", "\\u00f4", "\\u00f5",
      "\\u00f6", "\\u00f8", "\\u00f9", "\\u00fa", "\\u00fb", "\\u00fc",
      "\\u00fd", "\\u00fe", "\\u00ff", "\\u0100", "\\u0101", "\\u0102",
      "\\u0103", "\\u0104", "\\u0105", "\\u0106", "\\u0107", "\\u0108",
      "\\u0109", "\\u010a", "\\u010b", "\\u010c", "\\u010d", "\\u010e",
      "\\u010f", "\\u0110", "\\u0111", "\\u0112", "\\u0113", "\\u0114",
      "\\u0115", "\\u0116", "\\u0117", "\\u0118", "\\u0119", "\\u011a",
      "\\u011b", "\\u011c", "\\u011d", "\\u011e", "\\u011f", "\\u0120",
      "\\u0121", "\\u0122", "\\u0123", "\\u0124", "\\u0125", "\\u0126",
      "\\u0127", "\\u0128", "\\u0129", "\\u012a", "\\u012b", "\\u012c",
      "\\u012d", "\\u012e", "\\u012f", "\\u0130", "\\u0131", "\\u0132",
      "\\u0133", "\\u0134", "\\u0135", "\\u0136", "\\u0137", "\\u0138",
      "\\u0139", "\\u013a", "\\u013b", "\\u013c", "\\u013d", "\\u013e",
      "\\u013f", "\\u0140", "\\u0141", "\\u0142", "\\u0143", "\\u0144",
      "\\u0145", "\\u0146", "\\u0147", "\\u0148", "\\u0149", "\\u014a",
      "\\u014b", "\\u014c", "\\u014d", "\\u014e", "\\u014f", "\\u0150",
      "\\u0151", "\\u0152", "\\u0153", "\\u0154", "\\u0155", "\\u0156",
      "\\u0157", "\\u0158", "\\u0159", "\\u015a", "\\u015b", "\\u015c",
      "\\u015d", "\\u015e", "\\u015f", "\\u0160", "\\u0161", "\\u0162",
      "\\u0163", "\\u0164", "\\u0165", "\\u0166", "\\u0167", "\\u0168",
      "\\u0169", "\\u016a", "\\u016b", "\\u016c", "\\u016d", "\\u016e",
      "\\u016f", "\\u0170", "\\u0171", "\\u0172", "\\u0173", "\\u0174",
      "\\u0175", "\\u0176", "\\u0177", "\\u0178", "\\u0179", "\\u017a",
      "\\u017b", "\\u017c", "\\u017d", "\\u017e", "\\u017f", "\\u0180",
      "\\u0181", "\\u0182", "\\u0183", "\\u0184", "\\u0185", "\\u0186",
      "\\u0187", "\\u0188", "\\u0189", "\\u018a", "\\u018b", "\\u018c",
      "\\u018d", "\\u018e", "\\u018f", "\\u0190", "\\u0191", "\\u0192",
      "\\u0193", "\\u0194", "\\u0195", "\\u0196", "\\u0197", "\\u0198",
      "\\u0199", "\\u019a", "\\u019b", "\\u019c", "\\u019d", "\\u019e",
      "\\u019f", "\\u01a0", "\\u01a1", "\\u01a2", "\\u01a3", "\\u01a4",
      "\\u01a5", "\\u01a6", "\\u01a7", "\\u01a8", "\\u01a9", "\\u01aa",
      "\\u01ab", "\\u01ac", "\\u01ad", "\\u01ae", "\\u01af", "\\u01b0",
      "\\u01b1", "\\u01b2", "\\u01b3", "\\u01b4", "\\u01b5", "\\u01b6",
      "\\u01b7", "\\u01b8", "\\u01b9", "\\u01ba", "\\u01bc", "\\u01bd",
      "\\u01be", "\\u01bf", "\\u01c4", "\\u01c5", "\\u01c6", "\\u01c7",
      "\\u01c8", "\\u01c9", "\\u01ca", "\\u01cb", "\\u01cc", "\\u01cd",
      "\\u01ce", "\\u01cf", "\\u01d0", "\\u01d1", "\\u01d2", "\\u01d3",
      "\\u01d4", "\\u01d5", "\\u01d6", "\\u01d7", "\\u01d8", "\\u01d9",
      "\\u01da", "\\u01db", "\\u01dc", "\\u01dd", "\\u01de", "\\u01df",
      "\\u01e0", "\\u01e1", "\\u01e2", "\\u01e3", "\\u01e4", "\\u01e5",
      "\\u01e6", "\\u01e7", "\\u01e8", "\\u01e9", "\\u01ea", "\\u01eb",
      "\\u01ec", "\\u01ed", "\\u01ee", "\\u01ef", "\\u01f0", "\\u01f1",
      "\\u01f2", "\\u01f3", "\\u01f4", "\\u01f5", "\\u01f6", "\\u01f7",
      "\\u01f8", "\\u01f9", "\\u01fa", "\\u01fb", "\\u01fc", "\\u01fd",
      "\\u01fe", "\\u01ff", "\\u0200", "\\u0201", "\\u0202", "\\u0203",
      "\\u0204", "\\u0205", "\\u0206", "\\u0207", "\\u0208", "\\u0209",
      "\\u020a", "\\u020b", "\\u020c", "\\u020d", "\\u020e", "\\u020f",
      "\\u0210", "\\u0211", "\\u0212", "\\u0213", "\\u0214", "\\u0215",
      "\\u0216", "\\u0217", "\\u0218", "\\u0219", "\\u021a", "\\u021b",
      "\\u021c", "\\u021d", "\\u021e", "\\u021f", "\\u0220", "\\u0221",
      "\\u0222", "\\u0223", "\\u0224", "\\u0225", "\\u0226", "\\u0227",
      "\\u0228", "\\u0229", "\\u022a", "\\u022b", "\\u022c", "\\u022d",
      "\\u022e", "\\u022f", "\\u0230", "\\u0231", "\\u0232", "\\u0233",
      "\\u0234", "\\u0235", "\\u0236", "\\u0237", "\\u0238", "\\u0239",
      "\\u023a", "\\u023b", "\\u023c", "\\u023d", "\\u023e", "\\u023f",
      "\\u0240", "\\u0241", "\\u0242", "\\u0243", "\\u0244", "\\u0245",
      "\\u0246", "\\u0247", "\\u0248", "\\u0249", "\\u024a", "\\u024b",
      "\\u024c", "\\u024d", "\\u024e", "\\u024f", "\\u0250", "\\u0251",
      "\\u0252", "\\u0253", "\\u0254", "\\u0255", "\\u0256", "\\u0257",
      "\\u0258", "\\u0259", "\\u025a", "\\u025b", "\\u025c", "\\u025d",
      "\\u025e", "\\u025f", "\\u0260", "\\u0261", "\\u0262", "\\u0263",
      "\\u0264", "\\u0265", "\\u0266", "\\u0267", "\\u0268", "\\u0269",
      "\\u026a", "\\u026b", "\\u026c", "\\u026d", "\\u026e", "\\u026f",
      "\\u0270", "\\u0271", "\\u0272", "\\u0273", "\\u0274", "\\u0275",
      "\\u0276", "\\u0277", "\\u0278", "\\u0279", "\\u027a", "\\u027b",
      "\\u027c", "\\u027d", "\\u027e", "\\u027f", "\\u0280", "\\u0281",
      "\\u0282", "\\u0283", "\\u0284", "\\u0285", "\\u0286", "\\u0287",
      "\\u0288", "\\u0289", "\\u028a", "\\u028b", "\\u028c", "\\u028d",
      "\\u028e", "\\u028f", "\\u0290", "\\u0291", "\\u0292", "\\u0293",
      "\\u0295", "\\u0296", "\\u0297", "\\u0298", "\\u0299", "\\u029a",
      "\\u029b", "\\u029c", "\\u029d", "\\u029e", "\\u029f", "\\u02a0",
      "\\u02a1", "\\u02a2", "\\u02a3", "\\u02a4", "\\u02a5", "\\u02a6",
      "\\u02a7", "\\u02a8", "\\u02a9", "\\u02aa", "\\u02ab", "\\u02ac",
      "\\u02ad", "\\u02ae", "\\u02af", "\\u0370", "\\u0371", "\\u0372",
      "\\u0373", "\\u0376", "\\u0377", "\\u037b", "\\u037c", "\\u037d",
      "\\u037f", "\\u0386", "\\u0388", "\\u0389", "\\u038a", "\\u038c",
      "\\u038e", "\\u038f", "\\u0390", "\\u0391", "\\u0392", "\\u0393",
      "\\u0394", "\\u0395", "\\u0396", "\\u0397", "\\u0398", "\\u0399",
      "\\u039a", "\\u039b", "\\u039c", "\\u039d", "\\u039e", "\\u039f",
      "\\u03a0", "\\u03a1", "\\u03a3", "\\u03a4", "\\u03a5", "\\u03a6",
      "\\u03a7", "\\u03a8", "\\u03a9", "\\u03aa", "\\u03ab", "\\u03ac",
      "\\u03ad", "\\u03ae", "\\u03af", "\\u03b0", "\\u03b1", "\\u03b2",
      "\\u03b3", "\\u03b4", "\\u03b5", "\\u03b6", "\\u03b7", "\\u03b8",
      "\\u03b9", "\\u03ba", "\\u03bb", "\\u03bc", "\\u03bd", "\\u03be",
      "\\u03bf", "\\u03c0", "\\u03c1", "\\u03c2", "\\u03c3", "\\u03c4",
      "\\u03c5", "\\u03c6", "\\u03c7", "\\u03c8", "\\u03c9", "\\u03ca",
      "\\u03cb", "\\u03cc", "\\u03cd", "\\u03ce", "\\u03cf", "\\u03d0",
      "\\u03d1", "\\u03d2", "\\u03d3", "\\u03d4", "\\u03d5", "\\u03d6",
      "\\u03d7", "\\u03d8", "\\u03d9", "\\u03da", "\\u03db", "\\u03dc",
      "\\u03dd", "\\u03de", "\\u03df", "\\u03e0", "\\u03e1", "\\u03e2",
      "\\u03e3", "\\u03e4", "\\u03e5", "\\u03e6", "\\u03e7", "\\u03e8",
      "\\u03e9", "\\u03ea", "\\u03eb", "\\u03ec", "\\u03ed", "\\u03ee",
      "\\u03ef", "\\u03f0", "\\u03f1", "\\u03f2", "\\u03f3", "\\u03f4",
      "\\u03f5", "\\u03f7", "\\u03f8", "\\u03f9", "\\u03fa", "\\u03fb",
      "\\u03fc", "\\u03fd", "\\u03fe", "\\u03ff", "\\u0400", "\\u0401",
      "\\u0402", "\\u0403", "\\u0404", "\\u0405", "\\u0406", "\\u0407",
      "\\u0408", "\\u0409", "\\u040a", "\\u040b", "\\u040c", "\\u040d",
      "\\u040e", "\\u040f", "\\u0410", "\\u0411", "\\u0412", "\\u0413",
      "\\u0414", "\\u0415", "\\u0416", "\\u0417", "\\u0418", "\\u0419",
      "\\u041a", "\\u041b", "\\u041c", "\\u041d", "\\u041e", "\\u041f",
      "\\u0420", "\\u0421", "\\u0422", "\\u0423", "\\u0424", "\\u0425",
      "\\u0426", "\\u0427", "\\u0428", "\\u0429", "\\u042a", "\\u042b",
      "\\u042c", "\\u042d", "\\u042e", "\\u042f", "\\u0430", "\\u0431",
      "\\u0432", "\\u0433", "\\u0434", "\\u0435", "\\u0436", "\\u0437",
      "\\u0438", "\\u0439", "\\u043a", "\\u043b", "\\u043c", "\\u043d",
      "\\u043e", "\\u043f", "\\u0440", "\\u0441", "\\u0442", "\\u0443",
      "\\u0444", "\\u0445", "\\u0446", "\\u0447", "\\u0448", "\\u0449",
      "\\u044a", "\\u044b", "\\u044c", "\\u044d", "\\u044e", "\\u044f",
      "\\u0450", "\\u0451", "\\u0452", "\\u0453", "\\u0454", "\\u0455",
      "\\u0456", "\\u0457", "\\u0458", "\\u0459", "\\u045a", "\\u045b",
      "\\u045c", "\\u045d", "\\u045e", "\\u045f", "\\u0460", "\\u0461",
      "\\u0462", "\\u0463", "\\u0464", "\\u0465", "\\u0466", "\\u0467",
      "\\u0468", "\\u0469", "\\u046a", "\\u046b", "\\u046c", "\\u046d",
      "\\u046e", "\\u046f", "\\u0470", "\\u0471", "\\u0472", "\\u0473",
      "\\u0474", "\\u0475", "\\u0476", "\\u0477", "\\u0478", "\\u0479",
      "\\u047a", "\\u047b", "\\u047c", "\\u047d", "\\u047e", "\\u047f",
      "\\u0480", "\\u0481", "\\u048a", "\\u048b", "\\u048c", "\\u048d",
      "\\u048e", "\\u048f", "\\u0490", "\\u0491", "\\u0492", "\\u0493",
      "\\u0494", "\\u0495", "\\u0496", "\\u0497", "\\u0498", "\\u0499",
      "\\u049a", "\\u049b", "\\u049c", "\\u049d", "\\u049e", "\\u049f",
      "\\u04a0", "\\u04a1", "\\u04a2", "\\u04a3", "\\u04a4", "\\u04a5",
      "\\u04a6", "\\u04a7", "\\u04a8", "\\u04a9", "\\u04aa", "\\u04ab",
      "\\u04ac", "\\u04ad", "\\u04ae", "\\u04af", "\\u04b0", "\\u04b1",
      "\\u04b2", "\\u04b3", "\\u04b4", "\\u04b5", "\\u04b6", "\\u04b7",
      "\\u04b8", "\\u04b9", "\\u04ba", "\\u04bb", "\\u04bc", "\\u04bd",
      "\\u04be", "\\u04bf", "\\u04c0", "\\u04c1", "\\u04c2", "\\u04c3",
      "\\u04c4", "\\u04c5", "\\u04c6", "\\u04c7", "\\u04c8", "\\u04c9",
      "\\u04ca", "\\u04cb", "\\u04cc", "\\u04cd", "\\u04ce", "\\u04cf",
      "\\u04d0", "\\u04d1", "\\u04d2", "\\u04d3", "\\u04d4", "\\u04d5",
      "\\u04d6", "\\u04d7", "\\u04d8", "\\u04d9", "\\u04da", "\\u04db",
      "\\u04dc", "\\u04dd", "\\u04de", "\\u04df", "\\u04e0", "\\u04e1",
      "\\u04e2", "\\u04e3", "\\u04e4", "\\u04e5", "\\u04e6", "\\u04e7",
      "\\u04e8", "\\u04e9", "\\u04ea", "\\u04eb", "\\u04ec", "\\u04ed",
      "\\u04ee", "\\u04ef", "\\u04f0", "\\u04f1", "\\u04f2", "\\u04f3",
      "\\u04f4", "\\u04f5", "\\u04f6", "\\u04f7", "\\u04f8", "\\u04f9",
      "\\u04fa", "\\u04fb", "\\u04fc", "\\u04fd", "\\u04fe", "\\u04ff",
      "\\u0500", "\\u0501", "\\u0502", "\\u0503", "\\u0504", "\\u0505",
      "\\u0506", "\\u0507", "\\u0508", "\\u0509", "\\u050a", "\\u050b",
      "\\u050c", "\\u050d", "\\u050e", "\\u050f", "\\u0510", "\\u0511",
      "\\u0512", "\\u0513", "\\u0514", "\\u0515", "\\u0516", "\\u0517",
      "\\u0518", "\\u0519", "\\u051a", "\\u051b", "\\u051c", "\\u051d",
      "\\u051e", "\\u051f", "\\u0520", "\\u0521", "\\u0522", "\\u0523",
      "\\u0524", "\\u0525", "\\u0526", "\\u0527", "\\u0528", "\\u0529",
      "\\u052a", "\\u052b", "\\u052c", "\\u052d", "\\u052e", "\\u052f",
      "\\u0531", "\\u0532", "\\u0533", "\\u0534", "\\u0535", "\\u0536",
      "\\u0537", "\\u0538", "\\u0539", "\\u053a", "\\u053b", "\\u053c",
      "\\u053d", "\\u053e", "\\u053f", "\\u0540", "\\u0541", "\\u0542",
      "\\u0543", "\\u0544", "\\u0545", "\\u0546", "\\u0547", "\\u0548",
      "\\u0549", "\\u054a", "\\u054b", "\\u054c", "\\u054d", "\\u054e",
      "\\u054f", "\\u0550", "\\u0551", "\\u0552", "\\u0553", "\\u0554",
      "\\u0555", "\\u0556", "\\u0560", "\\u0561", "\\u0562", "\\u0563",
      "\\u0564", "\\u0565", "\\u0566", "\\u0567", "\\u0568", "\\u0569",
      "\\u056a", "\\u056b", "\\u056c", "\\u056d", "\\u056e", "\\u056f",
      "\\u0570", "\\u0571", "\\u0572", "\\u0573", "\\u0574", "\\u0575",
      "\\u0576", "\\u0577", "\\u0578", "\\u0579", "\\u057a", "\\u057b",
      "\\u057c", "\\u057d", "\\u057e", "\\u057f", "\\u0580", "\\u0581",
      "\\u0582", "\\u0583", "\\u0584", "\\u0585", "\\u0586", "\\u0587",
      "\\u0588", "\\u10a0", "\\u10a1", "\\u10a2", "\\u10a3", "\\u10a4",
      "\\u10a5", "\\u10a6", "\\u10a7", "\\u10a8", "\\u10a9", "\\u10aa",
      "\\u10ab", "\\u10ac", "\\u10ad", "\\u10ae", "\\u10af", "\\u10b0",
      "\\u10b1", "\\u10b2", "\\u10b3", "\\u10b4", "\\u10b5", "\\u10b6",
      "\\u10b7", "\\u10b8", "\\u10b9", "\\u10ba", "\\u10bb", "\\u10bc",
      "\\u10bd", "\\u10be", "\\u10bf", "\\u10c0", "\\u10c1", "\\u10c2",
      "\\u10c3", "\\u10c4", "\\u10c5", "\\u10c7", "\\u10cd", "\\u10d0",
      "\\u10d1", "\\u10d2", "\\u10d3", "\\u10d4", "\\u10d5", "\\u10d6",
      "\\u10d7", "\\u10d8", "\\u10d9", "\\u10da", "\\u10db", "\\u10dc",
      "\\u10dd", "\\u10de", "\\u10df", "\\u10e0", "\\u10e1", "\\u10e2",
      "\\u10e3", "\\u10e4", "\\u10e5", "\\u10e6", "\\u10e7", "\\u10e8",
      "\\u10e9", "\\u10ea", "\\u10eb", "\\u10ec", "\\u10ed", "\\u10ee",
      "\\u10ef", "\\u10f0", "\\u10f1", "\\u10f2", "\\u10f3", "\\u10f4",
      "\\u10f5", "\\u10f6", "\\u10f7", "\\u10f8", "\\u10f9", "\\u10fa",
      "\\u10fd", "\\u10fe", "\\u10ff", "\\u13a0", "\\u13a1", "\\u13a2",
      "\\u13a3", "\\u13a4", "\\u13a5", "\\u13a6", "\\u13a7", "\\u13a8",
      "\\u13a9", "\\u13aa", "\\u13ab", "\\u13ac", "\\u13ad", "\\u13ae",
      "\\u13af", "\\u13b0", "\\u13b1", "\\u13b2", "\\u13b3", "\\u13b4",
      "\\u13b5", "\\u13b6", "\\u13b7", "\\u13b8", "\\u13b9", "\\u13ba",
      "\\u13bb", "\\u13bc", "\\u13bd", "\\u13be", "\\u13bf", "\\u13c0",
      "\\u13c1", "\\u13c2", "\\u13c3", "\\u13c4", "\\u13c5", "\\u13c6",
      "\\u13c7", "\\u13c8", "\\u13c9", "\\u13ca", "\\u13cb", "\\u13cc",
      "\\u13cd", "\\u13ce", "\\u13cf", "\\u13d0", "\\u13d1", "\\u13d2",
      "\\u13d3", "\\u13d4", "\\u13d5", "\\u13d6", "\\u13d7", "\\u13d8",
      "\\u13d9", "\\u13da", "\\u13db", "\\u13dc", "\\u13dd", "\\u13de",
      "\\u13df", "\\u13e0", "\\u13e1", "\\u13e2", "\\u13e3", "\\u13e4",
      "\\u13e5", "\\u13e6", "\\u13e7", "\\u13e8", "\\u13e9", "\\u13ea",
      "\\u13eb", "\\u13ec", "\\u13ed", "\\u13ee", "\\u13ef", "\\u13f0",
      "\\u13f1", "\\u13f2", "\\u13f3", "\\u13f4", "\\u13f5", "\\u13f8",
      "\\u13f9", "\\u13fa", "\\u13fb", "\\u13fc", "\\u13fd", "\\u1c80",
      "\\u1c81", "\\u1c82", "\\u1c83", "\\u1c84", "\\u1c85", "\\u1c86",
      "\\u1c87", "\\u1c88", "\\u1c90", "\\u1c91", "\\u1c92", "\\u1c93",
      "\\u1c94", "\\u1c95", "\\u1c96", "\\u1c97", "\\u1c98", "\\u1c99",
      "\\u1c9a", "\\u1c9b", "\\u1c9c", "\\u1c9d", "\\u1c9e", "\\u1c9f",
      "\\u1ca0", "\\u1ca1", "\\u1ca2", "\\u1ca3", "\\u1ca4", "\\u1ca5",
      "\\u1ca6", "\\u1ca7", "\\u1ca8", "\\u1ca9", "\\u1caa", "\\u1cab",
      "\\u1cac", "\\u1cad", "\\u1cae", "\\u1caf", "\\u1cb0", "\\u1cb1",
      "\\u1cb2", "\\u1cb3", "\\u1cb4", "\\u1cb5", "\\u1cb6", "\\u1cb7",
      "\\u1cb8", "\\u1cb9", "\\u1cba", "\\u1cbd", "\\u1cbe", "\\u1cbf",
      "\\u1d00", "\\u1d01", "\\u1d02", "\\u1d03", "\\u1d04", "\\u1d05",
      "\\u1d06", "\\u1d07", "\\u1d08", "\\u1d09", "\\u1d0a", "\\u1d0b",
      "\\u1d0c", "\\u1d0d", "\\u1d0e", "\\u1d0f", "\\u1d10", "\\u1d11",
      "\\u1d12", "\\u1d13", "\\u1d14", "\\u1d15", "\\u1d16", "\\u1d17",
      "\\u1d18", "\\u1d19", "\\u1d1a", "\\u1d1b", "\\u1d1c", "\\u1d1d",
      "\\u1d1e", "\\u1d1f", "\\u1d20", "\\u1d21", "\\u1d22", "\\u1d23",
      "\\u1d24", "\\u1d25", "\\u1d26", "\\u1d27", "\\u1d28", "\\u1d29",
      "\\u1d2a", "\\u1d2b", "\\u1d6b", "\\u1d6c", "\\u1d6d", "\\u1d6e",
      "\\u1d6f", "\\u1d70", "\\u1d71", "\\u1d72", "\\u1d73", "\\u1d74",
      "\\u1d75", "\\u1d76", "\\u1d77", "\\u1d79", "\\u1d7a", "\\u1d7b",
      "\\u1d7c", "\\u1d7d", "\\u1d7e", "\\u1d7f", "\\u1d80", "\\u1d81",
      "\\u1d82", "\\u1d83", "\\u1d84", "\\u1d85", "\\u1d86", "\\u1d87",
      "\\u1d88", "\\u1d89", "\\u1d8a", "\\u1d8b", "\\u1d8c", "\\u1d8d",
      "\\u1d8e", "\\u1d8f", "\\u1d90", "\\u1d91", "\\u1d92", "\\u1d93",
      "\\u1d94", "\\u1d95", "\\u1d96", "\\u1d97", "\\u1d98", "\\u1d99",
      "\\u1d9a", "\\u1e00", "\\u1e01", "\\u1e02", "\\u1e03", "\\u1e04",
      "\\u1e05", "\\u1e06", "\\u1e07", "\\u1e08", "\\u1e09", "\\u1e0a",
      "\\u1e0b", "\\u1e0c", "\\u1e0d", "\\u1e0e", "\\u1e0f", "\\u1e10",
      "\\u1e11", "\\u1e12", "\\u1e13", "\\u1e14", "\\u1e15", "\\u1e16",
      "\\u1e17", "\\u1e18", "\\u1e19", "\\u1e1a", "\\u1e1b", "\\u1e1c",
      "\\u1e1d", "\\u1e1e", "\\u1e1f", "\\u1e20", "\\u1e21", "\\u1e22",
      "\\u1e23", "\\u1e24", "\\u1e25", "\\u1e26", "\\u1e27", "\\u1e28",
      "\\u1e29", "\\u1e2a", "\\u1e2b", "\\u1e2c", "\\u1e2d", "\\u1e2e",
      "\\u1e2f", "\\u1e30", "\\u1e31", "\\u1e32", "\\u1e33", "\\u1e34",
      "\\u1e35", "\\u1e36", "\\u1e37", "\\u1e38", "\\u1e39", "\\u1e3a",
      "\\u1e3b", "\\u1e3c", "\\u1e3d", "\\u1e3e", "\\u1e3f", "\\u1e40",
      "\\u1e41", "\\u1e42", "\\u1e43", "\\u1e44", "\\u1e45", "\\u1e46",
      "\\u1e47", "\\u1e48", "\\u1e49", "\\u1e4a", "\\u1e4b", "\\u1e4c",
      "\\u1e4d", "\\u1e4e", "\\u1e4f", "\\u1e50", "\\u1e51", "\\u1e52",
      "\\u1e53", "\\u1e54", "\\u1e55", "\\u1e56", "\\u1e57", "\\u1e58",
      "\\u1e59", "\\u1e5a", "\\u1e5b", "\\u1e5c", "\\u1e5d", "\\u1e5e",
      "\\u1e5f", "\\u1e60", "\\u1e61", "\\u1e62", "\\u1e63", "\\u1e64",
      "\\u1e65", "\\u1e66", "\\u1e67", "\\u1e68", "\\u1e69", "\\u1e6a",
      "\\u1e6b", "\\u1e6c", "\\u1e6d", "\\u1e6e", "\\u1e6f", "\\u1e70",
      "\\u1e71", "\\u1e72", "\\u1e73", "\\u1e74", "\\u1e75", "\\u1e76",
      "\\u1e77", "\\u1e78", "\\u1e79", "\\u1e7a", "\\u1e7b", "\\u1e7c",
      "\\u1e7d", "\\u1e7e", "\\u1e7f", "\\u1e80", "\\u1e81", "\\u1e82",
      "\\u1e83", "\\u1e84", "\\u1e85", "\\u1e86", "\\u1e87", "\\u1e88",
      "\\u1e89", "\\u1e8a", "\\u1e8b", "\\u1e8c", "\\u1e8d", "\\u1e8e",
      "\\u1e8f", "\\u1e90", "\\u1e91", "\\u1e92", "\\u1e93", "\\u1e94",
      "\\u1e95", "\\u1e96", "\\u1e97", "\\u1e98", "\\u1e99", "\\u1e9a",
      "\\u1e9b", "\\u1e9c", "\\u1e9d", "\\u1e9e", "\\u1e9f", "\\u1ea0",
      "\\u1ea1", "\\u1ea2", "\\u1ea3", "\\u1ea4", "\\u1ea5", "\\u1ea6",
      "\\u1ea7", "\\u1ea8", "\\u1ea9", "\\u1eaa", "\\u1eab", "\\u1eac",
      "\\u1ead", "\\u1eae", "\\u1eaf", "\\u1eb0", "\\u1eb1", "\\u1eb2",
      "\\u1eb3", "\\u1eb4", "\\u1eb5", "\\u1eb6", "\\u1eb7", "\\u1eb8",
      "\\u1eb9", "\\u1eba", "\\u1ebb", "\\u1ebc", "\\u1ebd", "\\u1ebe",
      "\\u1ebf", "\\u1ec0", "\\u1ec1", "\\u1ec2", "\\u1ec3", "\\u1ec4",
      "\\u1ec5", "\\u1ec6", "\\u1ec7", "\\u1ec8", "\\u1ec9", "\\u1eca",
      "\\u1ecb", "\\u1ecc", "\\u1ecd", "\\u1ece", "\\u1ecf", "\\u1ed0",
      "\\u1ed1", "\\u1ed2", "\\u1ed3", "\\u1ed4", "\\u1ed5", "\\u1ed6",
      "\\u1ed7", "\\u1ed8", "\\u1ed9", "\\u1eda", "\\u1edb", "\\u1edc",
      "\\u1edd", "\\u1ede", "\\u1edf", "\\u1ee0", "\\u1ee1", "\\u1ee2",
      "\\u1ee3", "\\u1ee4", "\\u1ee5", "\\u1ee6", "\\u1ee7", "\\u1ee8",
      "\\u1ee9", "\\u1eea", "\\u1eeb", "\\u1eec", "\\u1eed", "\\u1eee",
      "\\u1eef", "\\u1ef0", "\\u1ef1", "\\u1ef2", "\\u1ef3", "\\u1ef4",
      "\\u1ef5", "\\u1ef6", "\\u1ef7", "\\u1ef8", "\\u1ef9", "\\u1efa",
      "\\u1efb", "\\u1efc", "\\u1efd", "\\u1efe", "\\u1eff", "\\u1f00",
      "\\u1f01", "\\u1f02", "\\u1f03", "\\u1f04", "\\u1f05", "\\u1f06",
      "\\u1f07", "\\u1f08", "\\u1f09", "\\u1f0a", "\\u1f0b", "\\u1f0c",
      "\\u1f0d", "\\u1f0e", "\\u1f0f", "\\u1f10", "\\u1f11", "\\u1f12",
      "\\u1f13", "\\u1f14", "\\u1f15", "\\u1f18", "\\u1f19", "\\u1f1a",
      "\\u1f1b", "\\u1f1c", "\\u1f1d", "\\u1f20", "\\u1f21", "\\u1f22",
      "\\u1f23", "\\u1f24", "\\u1f25", "\\u1f26", "\\u1f27", "\\u1f28",
      "\\u1f29", "\\u1f2a", "\\u1f2b", "\\u1f2c", "\\u1f2d", "\\u1f2e",
      "\\u1f2f", "\\u1f30", "\\u1f31", "\\u1f32", "\\u1f33", "\\u1f34",
      "\\u1f35", "\\u1f36", "\\u1f37", "\\u1f38", "\\u1f39", "\\u1f3a",
      "\\u1f3b", "\\u1f3c", "\\u1f3d", "\\u1f3e", "\\u1f3f", "\\u1f40",
      "\\u1f41", "\\u1f42", "\\u1f43", "\\u1f44", "\\u1f45", "\\u1f48",
      "\\u1f49", "\\u1f4a", "\\u1f4b", "\\u1f4c", "\\u1f4d", "\\u1f50",
      "\\u1f51", "\\u1f52", "\\u1f53", "\\u1f54", "\\u1f55", "\\u1f56",
      "\\u1f57", "\\u1f59", "\\u1f5b", "\\u1f5d", "\\u1f5f", "\\u1f60",
      "\\u1f61", "\\u1f62", "\\u1f63", "\\u1f64", "\\u1f65", "\\u1f66",
      "\\u1f67", "\\u1f68", "\\u1f69", "\\u1f6a", "\\u1f6b", "\\u1f6c",
      "\\u1f6d", "\\u1f6e", "\\u1f6f", "\\u1f70", "\\u1f71", "\\u1f72",
      "\\u1f73", "\\u1f74", "\\u1f75", "\\u1f76", "\\u1f77", "\\u1f78",
      "\\u1f79", "\\u1f7a", "\\u1f7b", "\\u1f7c", "\\u1f7d", "\\u1f80",
      "\\u1f81", "\\u1f82", "\\u1f83", "\\u1f84", "\\u1f85", "\\u1f86",
      "\\u1f87", "\\u1f88", "\\u1f89", "\\u1f8a", "\\u1f8b", "\\u1f8c",
      "\\u1f8d", "\\u1f8e", "\\u1f8f", "\\u1f90", "\\u1f91", "\\u1f92",
      "\\u1f93", "\\u1f94", "\\u1f95", "\\u1f96", "\\u1f97", "\\u1f98",
      "\\u1f99", "\\u1f9a", "\\u1f9b", "\\u1f9c", "\\u1f9d", "\\u1f9e",
      "\\u1f9f", "\\u1fa0", "\\u1fa1", "\\u1fa2", "\\u1fa3", "\\u1fa4",
      "\\u1fa5", "\\u1fa6", "\\u1fa7", "\\u1fa8", "\\u1fa9", "\\u1faa",
      "\\u1fab", "\\u1fac", "\\u1fad", "\\u1fae", "\\u1faf", "\\u1fb0",
      "\\u1fb1", "\\u1fb2", "\\u1fb3", "\\u1fb4", "\\u1fb6", "\\u1fb7",
      "\\u1fb8", "\\u1fb9", "\\u1fba", "\\u1fbb", "\\u1fbc", "\\u1fbe",
      "\\u1fc2", "\\u1fc3", "\\u1fc4", "\\u1fc6", "\\u1fc7", "\\u1fc8",
      "\\u1fc9", "\\u1fca", "\\u1fcb", "\\u1fcc", "\\u1fd0", "\\u1fd1",
      "\\u1fd2", "\\u1fd3", "\\u1fd6", "\\u1fd7", "\\u1fd8", "\\u1fd9",
      "\\u1fda", "\\u1fdb", "\\u1fe0", "\\u1fe1", "\\u1fe2", "\\u1fe3",
      "\\u1fe4", "\\u1fe5", "\\u1fe6", "\\u1fe7", "\\u1fe8", "\\u1fe9",
      "\\u1fea", "\\u1feb", "\\u1fec", "\\u1ff2", "\\u1ff3", "\\u1ff4",
      "\\u1ff6", "\\u1ff7", "\\u1ff8", "\\u1ff9", "\\u1ffa", "\\u1ffb",
      "\\u1ffc", "\\u2102", "\\u2107", "\\u210a", "\\u210b", "\\u210c",
      "\\u210d", "\\u210e", "\\u210f", "\\u2110", "\\u2111", "\\u2112",
      "\\u2113", "\\u2115", "\\u2119", "\\u211a", "\\u211b", "\\u211c",
      "\\u211d", "\\u2124", "\\u2126", "\\u2128", "\\u212a", "\\u212b",
      "\\u212c", "\\u212d", "\\u212f", "\\u2130", "\\u2131", "\\u2132",
      "\\u2133", "\\u2134", "\\u2139", "\\u213c", "\\u213d", "\\u213e",
      "\\u213f", "\\u2145", "\\u2146", "\\u2147", "\\u2148", "\\u2149",
      "\\u214e", "\\u2160", "\\u2161", "\\u2162", "\\u2163", "\\u2164",
      "\\u2165", "\\u2166", "\\u2167", "\\u2168", "\\u2169", "\\u216a",
      "\\u216b", "\\u216c", "\\u216d", "\\u216e", "\\u216f", "\\u2170",
      "\\u2171", "\\u2172", "\\u2173", "\\u2174", "\\u2175", "\\u2176",
      "\\u2177", "\\u2178", "\\u2179", "\\u217a", "\\u217b", "\\u217c",
      "\\u217d", "\\u217e", "\\u217f", "\\u2183", "\\u2184", "\\u24b6",
      "\\u24b7", "\\u24b8", "\\u24b9", "\\u24ba", "\\u24bb", "\\u24bc",
      "\\u24bd", "\\u24be", "\\u24bf", "\\u24c0", "\\u24c1", "\\u24c2",
      "\\u24c3", "\\u24c4", "\\u24c5", "\\u24c6", "\\u24c7", "\\u24c8",
      "\\u24c9", "\\u24ca", "\\u24cb", "\\u24cc", "\\u24cd", "\\u24ce",
      "\\u24cf", "\\u24d0", "\\u24d1", "\\u24d2", "\\u24d3", "\\u24d4",
      "\\u24d5", "\\u24d6", "\\u24d7", "\\u24d8", "\\u24d9", "\\u24da",
      "\\u24db", "\\u24dc", "\\u24dd", "\\u24de", "\\u24df", "\\u24e0",
      "\\u24e1", "\\u24e2", "\\u24e3", "\\u24e4", "\\u24e5", "\\u24e6",
      "\\u24e7", "\\u24e8", "\\u24e9", "\\u2c00", "\\u2c01", "\\u2c02",
      "\\u2c03", "\\u2c04", "\\u2c05", "\\u2c06", "\\u2c07", "\\u2c08",
      "\\u2c09", "\\u2c0a", "\\u2c0b", "\\u2c0c", "\\u2c0d", "\\u2c0e",
      "\\u2c0f", "\\u2c10", "\\u2c11", "\\u2c12", "\\u2c13", "\\u2c14",
      "\\u2c15", "\\u2c16", "\\u2c17", "\\u2c18", "\\u2c19", "\\u2c1a",
      "\\u2c1b", "\\u2c1c", "\\u2c1d", "\\u2c1e", "\\u2c1f", "\\u2c20",
      "\\u2c21", "\\u2c22", "\\u2c23", "\\u2c24", "\\u2c25", "\\u2c26",
      "\\u2c27", "\\u2c28", "\\u2c29", "\\u2c2a", "\\u2c2b", "\\u2c2c",
      "\\u2c2d", "\\u2c2e", "\\u2c2f", "\\u2c30", "\\u2c31", "\\u2c32",
      "\\u2c33", "\\u2c34", "\\u2c35", "\\u2c36", "\\u2c37", "\\u2c38",
      "\\u2c39", "\\u2c3a", "\\u2c3b", "\\u2c3c", "\\u2c3d", "\\u2c3e",
      "\\u2c3f", "\\u2c40", "\\u2c41", "\\u2c42", "\\u2c43", "\\u2c44",
      "\\u2c45", "\\u2c46", "\\u2c47", "\\u2c48", "\\u2c49", "\\u2c4a",
      "\\u2c4b", "\\u2c4c", "\\u2c4d", "\\u2c4e", "\\u2c4f", "\\u2c50",
      "\\u2c51", "\\u2c52", "\\u2c53", "\\u2c54", "\\u2c55", "\\u2c56",
      "\\u2c57", "\\u2c58", "\\u2c59", "\\u2c5a", "\\u2c5b", "\\u2c5c",
      "\\u2c5d", "\\u2c5e", "\\u2c5f", "\\u2c60", "\\u2c61", "\\u2c62",
      "\\u2c63", "\\u2c64", "\\u2c65", "\\u2c66", "\\u2c67", "\\u2c68",
      "\\u2c69", "\\u2c6a", "\\u2c6b", "\\u2c6c", "\\u2c6d", "\\u2c6e",
      "\\u2c6f", "\\u2c70", "\\u2c71", "\\u2c72", "\\u2c73", "\\u2c74",
      "\\u2c75", "\\u2c76", "\\u2c77", "\\u2c78", "\\u2c79", "\\u2c7a",
      "\\u2c7b", "\\u2c7e", "\\u2c7f", "\\u2c80", "\\u2c81", "\\u2c82",
      "\\u2c83", "\\u2c84", "\\u2c85", "\\u2c86", "\\u2c87", "\\u2c88",
      "\\u2c89", "\\u2c8a", "\\u2c8b", "\\u2c8c", "\\u2c8d", "\\u2c8e",
      "\\u2c8f", "\\u2c90", "\\u2c91", "\\u2c92", "\\u2c93", "\\u2c94",
      "\\u2c95", "\\u2c96", "\\u2c97", "\\u2c98", "\\u2c99", "\\u2c9a",
      "\\u2c9b", "\\u2c9c", "\\u2c9d", "\\u2c9e", "\\u2c9f", "\\u2ca0",
      "\\u2ca1", "\\u2ca2", "\\u2ca3", "\\u2ca4", "\\u2ca5", "\\u2ca6",
      "\\u2ca7", "\\u2ca8", "\\u2ca9", "\\u2caa", "\\u2cab", "\\u2cac",
      "\\u2cad", "\\u2cae", "\\u2caf", "\\u2cb0", "\\u2cb1", "\\u2cb2",
      "\\u2cb3", "\\u2cb4", "\\u2cb5", "\\u2cb6", "\\u2cb7", "\\u2cb8",
      "\\u2cb9", "\\u2cba", "\\u2cbb", "\\u2cbc", "\\u2cbd", "\\u2cbe",
      "\\u2cbf", "\\u2cc0", "\\u2cc1", "\\u2cc2", "\\u2cc3", "\\u2cc4",
      "\\u2cc5", "\\u2cc6", "\\u2cc7", "\\u2cc8", "\\u2cc9", "\\u2cca",
      "\\u2ccb", "\\u2ccc", "\\u2ccd", "\\u2cce", "\\u2ccf", "\\u2cd0",
      "\\u2cd1", "\\u2cd2", "\\u2cd3", "\\u2cd4", "\\u2cd5", "\\u2cd6",
      "\\u2cd7", "\\u2cd8", "\\u2cd9", "\\u2cda", "\\u2cdb", "\\u2cdc",
      "\\u2cdd", "\\u2cde", "\\u2cdf", "\\u2ce0", "\\u2ce1", "\\u2ce2",
      "\\u2ce3", "\\u2ce4", "\\u2ceb", "\\u2cec", "\\u2ced", "\\u2cee",
      "\\u2cf2", "\\u2cf3", "\\u2d00", "\\u2d01", "\\u2d02", "\\u2d03",
      "\\u2d04", "\\u2d05", "\\u2d06", "\\u2d07", "\\u2d08", "\\u2d09",
      "\\u2d0a", "\\u2d0b", "\\u2d0c", "\\u2d0d", "\\u2d0e", "\\u2d0f",
      "\\u2d10", "\\u2d11", "\\u2d12", "\\u2d13", "\\u2d14", "\\u2d15",
      "\\u2d16", "\\u2d17", "\\u2d18", "\\u2d19", "\\u2d1a", "\\u2d1b",
      "\\u2d1c", "\\u2d1d", "\\u2d1e", "\\u2d1f", "\\u2d20", "\\u2d21",
      "\\u2d22", "\\u2d23", "\\u2d24", "\\u2d25", "\\u2d27", "\\u2d2d",
      "\\ua640", "\\ua641", "\\ua642", "\\ua643", "\\ua644", "\\ua645",
      "\\ua646", "\\ua647", "\\ua648", "\\ua649", "\\ua64a", "\\ua64b",
      "\\ua64c", "\\ua64d", "\\ua64e", "\\ua64f", "\\ua650", "\\ua651",
      "\\ua652", "\\ua653", "\\ua654", "\\ua655", "\\ua656", "\\ua657",
      "\\ua658", "\\ua659", "\\ua65a", "\\ua65b", "\\ua65c", "\\ua65d",
      "\\ua65e", "\\ua65f", "\\ua660", "\\ua661", "\\ua662", "\\ua663",
      "\\ua664", "\\ua665", "\\ua666", "\\ua667", "\\ua668", "\\ua669",
      "\\ua66a", "\\ua66b", "\\ua66c", "\\ua66d", "\\ua680", "\\ua681",
      "\\ua682", "\\ua683", "\\ua684", "\\ua685", "\\ua686", "\\ua687",
      "\\ua688", "\\ua689", "\\ua68a", "\\ua68b", "\\ua68c", "\\ua68d",
      "\\ua68e", "\\ua68f", "\\ua690", "\\ua691", "\\ua692", "\\ua693",
      "\\ua694", "\\ua695", "\\ua696", "\\ua697", "\\ua698", "\\ua699",
      "\\ua69a", "\\ua69b", "\\ua722", "\\ua723", "\\ua724", "\\ua725",
      "\\ua726", "\\ua727", "\\ua728", "\\ua729", "\\ua72a", "\\ua72b",
      "\\ua72c", "\\ua72d", "\\ua72e", "\\ua72f", "\\ua730", "\\ua731",
      "\\ua732", "\\ua733", "\\ua734", "\\ua735", "\\ua736", "\\ua737",
      "\\ua738", "\\ua739", "\\ua73a", "\\ua73b", "\\ua73c", "\\ua73d",
      "\\ua73e", "\\ua73f", "\\ua740", "\\ua741", "\\ua742", "\\ua743",
      "\\ua744", "\\ua745", "\\ua746", "\\ua747", "\\ua748", "\\ua749",
      "\\ua74a", "\\ua74b", "\\ua74c", "\\ua74d", "\\ua74e", "\\ua74f",
      "\\ua750", "\\ua751", "\\ua752", "\\ua753", "\\ua754", "\\ua755",
      "\\ua756", "\\ua757", "\\ua758", "\\ua759", "\\ua75a", "\\ua75b",
      "\\ua75c", "\\ua75d", "\\ua75e", "\\ua75f", "\\ua760", "\\ua761",
      "\\ua762", "\\ua763", "\\ua764", "\\ua765", "\\ua766", "\\ua767",
      "\\ua768", "\\ua769", "\\ua76a", "\\ua76b", "\\ua76c", "\\ua76d",
      "\\ua76e", "\\ua76f", "\\ua771", "\\ua772", "\\ua773", "\\ua774",
      "\\ua775", "\\ua776", "\\ua777", "\\ua778", "\\ua779", "\\ua77a",
      "\\ua77b", "\\ua77c", "\\ua77d", "\\ua77e", "\\ua77f", "\\ua780",
      "\\ua781", "\\ua782", "\\ua783", "\\ua784", "\\ua785", "\\ua786",
      "\\ua787", "\\ua78b", "\\ua78c", "\\ua78d", "\\ua78e", "\\ua790",
      "\\ua791", "\\ua792", "\\ua793", "\\ua794", "\\ua795", "\\ua796",
      "\\ua797", "\\ua798", "\\ua799", "\\ua79a", "\\ua79b", "\\ua79c",
      "\\ua79d", "\\ua79e", "\\ua79f", "\\ua7a0", "\\ua7a1", "\\ua7a2",
      "\\ua7a3", "\\ua7a4", "\\ua7a5", "\\ua7a6", "\\ua7a7", "\\ua7a8",
      "\\ua7a9", "\\ua7aa", "\\ua7ab", "\\ua7ac", "\\ua7ad", "\\ua7ae",
      "\\ua7af", "\\ua7b0", "\\ua7b1", "\\ua7b2", "\\ua7b3", "\\ua7b4",
      "\\ua7b5", "\\ua7b6", "\\ua7b7", "\\ua7b8", "\\ua7b9", "\\ua7ba",
      "\\ua7bb", "\\ua7bc", "\\ua7bd", "\\ua7be", "\\ua7bf", "\\ua7c0",
      "\\ua7c1", "\\ua7c2", "\\ua7c3", "\\ua7c4", "\\ua7c5", "\\ua7c6",
      "\\ua7c7", "\\ua7c8", "\\ua7c9", "\\ua7ca", "\\ua7d0", "\\ua7d1",
      "\\ua7d3", "\\ua7d5", "\\ua7d6", "\\ua7d7", "\\ua7d8", "\\ua7d9",
      "\\ua7f5", "\\ua7f6", "\\ua7fa", "\\uab30", "\\uab31", "\\uab32",
      "\\uab33", "\\uab34", "\\uab35", "\\uab36", "\\uab37", "\\uab38",
      "\\uab39", "\\uab3a", "\\uab3b", "\\uab3c", "\\uab3d", "\\uab3e",
      "\\uab3f", "\\uab40", "\\uab41", "\\uab42", "\\uab43", "\\uab44",
      "\\uab45", "\\uab46", "\\uab47", "\\uab48", "\\uab49", "\\uab4a",
      "\\uab4b", "\\uab4c", "\\uab4d", "\\uab4e", "\\uab4f", "\\uab50",
      "\\uab51", "\\uab52", "\\uab53", "\\uab54", "\\uab55", "\\uab56",
      "\\uab57", "\\uab58", "\\uab59", "\\uab5a", "\\uab60", "\\uab61",
      "\\uab62", "\\uab63", "\\uab64", "\\uab65", "\\uab66", "\\uab67",
      "\\uab68", "\\uab70", "\\uab71", "\\uab72", "\\uab73", "\\uab74",
      "\\uab75", "\\uab76", "\\uab77", "\\uab78", "\\uab79", "\\uab7a",
      "\\uab7b", "\\uab7c", "\\uab7d", "\\uab7e", "\\uab7f", "\\uab80",
      "\\uab81", "\\uab82", "\\uab83", "\\uab84", "\\uab85", "\\uab86",
      "\\uab87", "\\uab88", "\\uab89", "\\uab8a", "\\uab8b", "\\uab8c",
      "\\uab8d", "\\uab8e", "\\uab8f", "\\uab90", "\\uab91", "\\uab92",
      "\\uab93", "\\uab94", "\\uab95", "\\uab96", "\\uab97", "\\uab98",
      "\\uab99", "\\uab9a", "\\uab9b", "\\uab9c", "\\uab9d", "\\uab9e",
      "\\uab9f", "\\uaba0", "\\uaba1", "\\uaba2", "\\uaba3", "\\uaba4",
      "\\uaba5", "\\uaba6", "\\uaba7", "\\uaba8", "\\uaba9", "\\uabaa",
      "\\uabab", "\\uabac", "\\uabad", "\\uabae", "\\uabaf", "\\uabb0",
      "\\uabb1", "\\uabb2", "\\uabb3", "\\uabb4", "\\uabb5", "\\uabb6",
      "\\uabb7", "\\uabb8", "\\uabb9", "\\uabba", "\\uabbb", "\\uabbc",
      "\\uabbd", "\\uabbe", "\\uabbf", "\\ufb00", "\\ufb01", "\\ufb02",
      "\\ufb03", "\\ufb04", "\\ufb05", "\\ufb06", "\\ufb13", "\\ufb14",
      "\\ufb15", "\\ufb16", "\\ufb17", "\\uff21", "\\uff22", "\\uff23",
      "\\uff24", "\\uff25", "\\uff26", "\\uff27", "\\uff28", "\\uff29",
      "\\uff2a", "\\uff2b", "\\uff2c", "\\uff2d", "\\uff2e", "\\uff2f",
      "\\uff30", "\\uff31", "\\uff32", "\\uff33", "\\uff34", "\\uff35",
      "\\uff36", "\\uff37", "\\uff38", "\\uff39", "\\uff3a", "\\uff41",
      "\\uff42", "\\uff43", "\\uff44", "\\uff45", "\\uff46", "\\uff47",
      "\\uff48", "\\uff49", "\\uff4a", "\\uff4b", "\\uff4c", "\\uff4d",
      "\\uff4e", "\\uff4f", "\\uff50", "\\uff51", "\\uff52", "\\uff53",
      "\\uff54", "\\uff55", "\\uff56", "\\uff57", "\\uff58", "\\uff59",
      "\\uff5a", "\\ud801\\udc00", "\\ud801\\udc01", "\\ud801\\udc02",
      "\\ud801\\udc03", "\\ud801\\udc04", "\\ud801\\udc05", "\\ud801\\udc06",
      "\\ud801\\udc07", "\\ud801\\udc08", "\\ud801\\udc09", "\\ud801\\udc0a",
      "\\ud801\\udc0b", "\\ud801\\udc0c", "\\ud801\\udc0d", "\\ud801\\udc0e",
      "\\ud801\\udc0f", "\\ud801\\udc10", "\\ud801\\udc11", "\\ud801\\udc12",
      "\\ud801\\udc13", "\\ud801\\udc14", "\\ud801\\udc15", "\\ud801\\udc16",
      "\\ud801\\udc17", "\\ud801\\udc18", "\\ud801\\udc19", "\\ud801\\udc1a",
      "\\ud801\\udc1b", "\\ud801\\udc1c", "\\ud801\\udc1d", "\\ud801\\udc1e",
      "\\ud801\\udc1f", "\\ud801\\udc20", "\\ud801\\udc21", "\\ud801\\udc22",
      "\\ud801\\udc23", "\\ud801\\udc24", "\\ud801\\udc25", "\\ud801\\udc26",
      "\\ud801\\udc27", "\\ud801\\udc28", "\\ud801\\udc29", "\\ud801\\udc2a",
      "\\ud801\\udc2b", "\\ud801\\udc2c", "\\ud801\\udc2d", "\\ud801\\udc2e",
      "\\ud801\\udc2f", "\\ud801\\udc30", "\\ud801\\udc31", "\\ud801\\udc32",
      "\\ud801\\udc33", "\\ud801\\udc34", "\\ud801\\udc35", "\\ud801\\udc36",
      "\\ud801\\udc37", "\\ud801\\udc38", "\\ud801\\udc39", "\\ud801\\udc3a",
      "\\ud801\\udc3b", "\\ud801\\udc3c", "\\ud801\\udc3d", "\\ud801\\udc3e",
      "\\ud801\\udc3f", "\\ud801\\udc40", "\\ud801\\udc41", "\\ud801\\udc42",
      "\\ud801\\udc43", "\\ud801\\udc44", "\\ud801\\udc45", "\\ud801\\udc46",
      "\\ud801\\udc47", "\\ud801\\udc48", "\\ud801\\udc49", "\\ud801\\udc4a",
      "\\ud801\\udc4b", "\\ud801\\udc4c", "\\ud801\\udc4d", "\\ud801\\udc4e",
      "\\ud801\\udc4f", "\\ud801\\udcb0", "\\ud801\\udcb1", "\\ud801\\udcb2",
      "\\ud801\\udcb3", "\\ud801\\udcb4", "\\ud801\\udcb5", "\\ud801\\udcb6",
      "\\ud801\\udcb7", "\\ud801\\udcb8", "\\ud801\\udcb9", "\\ud801\\udcba",
      "\\ud801\\udcbb", "\\ud801\\udcbc", "\\ud801\\udcbd", "\\ud801\\udcbe",
      "\\ud801\\udcbf", "\\ud801\\udcc0", "\\ud801\\udcc1", "\\ud801\\udcc2",
      "\\ud801\\udcc3", "\\ud801\\udcc4", "\\ud801\\udcc5", "\\ud801\\udcc6",
      "\\ud801\\udcc7", "\\ud801\\udcc8", "\\ud801\\udcc9", "\\ud801\\udcca",
      "\\ud801\\udccb", "\\ud801\\udccc", "\\ud801\\udccd", "\\ud801\\udcce",
      "\\ud801\\udccf", "\\ud801\\udcd0", "\\ud801\\udcd1", "\\ud801\\udcd2",
      "\\ud801\\udcd3", "\\ud801\\udcd8", "\\ud801\\udcd9", "\\ud801\\udcda",
      "\\ud801\\udcdb", "\\ud801\\udcdc", "\\ud801\\udcdd", "\\ud801\\udcde",
      "\\ud801\\udcdf", "\\ud801\\udce0", "\\ud801\\udce1", "\\ud801\\udce2",
      "\\ud801\\udce3", "\\ud801\\udce4", "\\ud801\\udce5", "\\ud801\\udce6",
      "\\ud801\\udce7", "\\ud801\\udce8", "\\ud801\\udce9", "\\ud801\\udcea",
      "\\ud801\\udceb", "\\ud801\\udcec", "\\ud801\\udced", "\\ud801\\udcee",
      "\\ud801\\udcef", "\\ud801\\udcf0", "\\ud801\\udcf1", "\\ud801\\udcf2",
      "\\ud801\\udcf3", "\\ud801\\udcf4", "\\ud801\\udcf5", "\\ud801\\udcf6",
      "\\ud801\\udcf7", "\\ud801\\udcf8", "\\ud801\\udcf9", "\\ud801\\udcfa",
      "\\ud801\\udcfb", "\\ud801\\udd70", "\\ud801\\udd71", "\\ud801\\udd72",
      "\\ud801\\udd73", "\\ud801\\udd74", "\\ud801\\udd75", "\\ud801\\udd76",
      "\\ud801\\udd77", "\\ud801\\udd78", "\\ud801\\udd79", "\\ud801\\udd7a",
      "\\ud801\\udd7c", "\\ud801\\udd7d", "\\ud801\\udd7e", "\\ud801\\udd7f",
      "\\ud801\\udd80", "\\ud801\\udd81", "\\ud801\\udd82", "\\ud801\\udd83",
      "\\ud801\\udd84", "\\ud801\\udd85", "\\ud801\\udd86", "\\ud801\\udd87",
      "\\ud801\\udd88", "\\ud801\\udd89", "\\ud801\\udd8a", "\\ud801\\udd8c",
      "\\ud801\\udd8d", "\\ud801\\udd8e", "\\ud801\\udd8f", "\\ud801\\udd90",
      "\\ud801\\udd91", "\\ud801\\udd92", "\\ud801\\udd94", "\\ud801\\udd95",
      "\\ud801\\udd97", "\\ud801\\udd98", "\\ud801\\udd99", "\\ud801\\udd9a",
      "\\ud801\\udd9b", "\\ud801\\udd9c", "\\ud801\\udd9d", "\\ud801\\udd9e",
      "\\ud801\\udd9f", "\\ud801\\udda0", "\\ud801\\udda1", "\\ud801\\udda3",
      "\\ud801\\udda4", "\\ud801\\udda5", "\\ud801\\udda6", "\\ud801\\udda7",
      "\\ud801\\udda8", "\\ud801\\udda9", "\\ud801\\uddaa", "\\ud801\\uddab",
      "\\ud801\\uddac", "\\ud801\\uddad", "\\ud801\\uddae", "\\ud801\\uddaf",
      "\\ud801\\uddb0", "\\ud801\\uddb1", "\\ud801\\uddb3", "\\ud801\\uddb4",
      "\\ud801\\uddb5", "\\ud801\\uddb6", "\\ud801\\uddb7", "\\ud801\\uddb8",
      "\\ud801\\uddb9", "\\ud801\\uddbb", "\\ud801\\uddbc", "\\ud803\\udc80",
      "\\ud803\\udc81", "\\ud803\\udc82", "\\ud803\\udc83", "\\ud803\\udc84",
      "\\ud803\\udc85", "\\ud803\\udc86", "\\ud803\\udc87", "\\ud803\\udc88",
      "\\ud803\\udc89", "\\ud803\\udc8a", "\\ud803\\udc8b", "\\ud803\\udc8c",
      "\\ud803\\udc8d", "\\ud803\\udc8e", "\\ud803\\udc8f", "\\ud803\\udc90",
      "\\ud803\\udc91", "\\ud803\\udc92", "\\ud803\\udc93", "\\ud803\\udc94",
      "\\ud803\\udc95", "\\ud803\\udc96", "\\ud803\\udc97", "\\ud803\\udc98",
      "\\ud803\\udc99", "\\ud803\\udc9a", "\\ud803\\udc9b", "\\ud803\\udc9c",
      "\\ud803\\udc9d", "\\ud803\\udc9e", "\\ud803\\udc9f", "\\ud803\\udca0",
      "\\ud803\\udca1", "\\ud803\\udca2", "\\ud803\\udca3", "\\ud803\\udca4",
      "\\ud803\\udca5", "\\ud803\\udca6", "\\ud803\\udca7", "\\ud803\\udca8",
      "\\ud803\\udca9", "\\ud803\\udcaa", "\\ud803\\udcab", "\\ud803\\udcac",
      "\\ud803\\udcad", "\\ud803\\udcae", "\\ud803\\udcaf", "\\ud803\\udcb0",
      "\\ud803\\udcb1", "\\ud803\\udcb2", "\\ud803\\udcc0", "\\ud803\\udcc1",
      "\\ud803\\udcc2", "\\ud803\\udcc3", "\\ud803\\udcc4", "\\ud803\\udcc5",
      "\\ud803\\udcc6", "\\ud803\\udcc7", "\\ud803\\udcc8", "\\ud803\\udcc9",
      "\\ud803\\udcca", "\\ud803\\udccb", "\\ud803\\udccc", "\\ud803\\udccd",
      "\\ud803\\udcce", "\\ud803\\udccf", "\\ud803\\udcd0", "\\ud803\\udcd1",
      "\\ud803\\udcd2", "\\ud803\\udcd3", "\\ud803\\udcd4", "\\ud803\\udcd5",
      "\\ud803\\udcd6", "\\ud803\\udcd7", "\\ud803\\udcd8", "\\ud803\\udcd9",
      "\\ud803\\udcda", "\\ud803\\udcdb", "\\ud803\\udcdc", "\\ud803\\udcdd",
      "\\ud803\\udcde", "\\ud803\\udcdf", "\\ud803\\udce0", "\\ud803\\udce1",
      "\\ud803\\udce2", "\\ud803\\udce3", "\\ud803\\udce4", "\\ud803\\udce5",
      "\\ud803\\udce6", "\\ud803\\udce7", "\\ud803\\udce8", "\\ud803\\udce9",
      "\\ud803\\udcea", "\\ud803\\udceb", "\\ud803\\udcec", "\\ud803\\udced",
      "\\ud803\\udcee", "\\ud803\\udcef", "\\ud803\\udcf0", "\\ud803\\udcf1",
      "\\ud803\\udcf2", "\\ud806\\udca0", "\\ud806\\udca1", "\\ud806\\udca2",
      "\\ud806\\udca3", "\\ud806\\udca4", "\\ud806\\udca5", "\\ud806\\udca6",
      "\\ud806\\udca7", "\\ud806\\udca8", "\\ud806\\udca9", "\\ud806\\udcaa",
      "\\ud806\\udcab", "\\ud806\\udcac", "\\ud806\\udcad", "\\ud806\\udcae",
      "\\ud806\\udcaf", "\\ud806\\udcb0", "\\ud806\\udcb1", "\\ud806\\udcb2",
      "\\ud806\\udcb3", "\\ud806\\udcb4", "\\ud806\\udcb5", "\\ud806\\udcb6",
      "\\ud806\\udcb7", "\\ud806\\udcb8", "\\ud806\\udcb9", "\\ud806\\udcba",
      "\\ud806\\udcbb", "\\ud806\\udcbc", "\\ud806\\udcbd", "\\ud806\\udcbe",
      "\\ud806\\udcbf", "\\ud806\\udcc0", "\\ud806\\udcc1", "\\ud806\\udcc2",
      "\\ud806\\udcc3", "\\ud806\\udcc4", "\\ud806\\udcc5", "\\ud806\\udcc6",
      "\\ud806\\udcc7", "\\ud806\\udcc8", "\\ud806\\udcc9", "\\ud806\\udcca",
      "\\ud806\\udccb", "\\ud806\\udccc", "\\ud806\\udccd", "\\ud806\\udcce",
      "\\ud806\\udccf", "\\ud806\\udcd0", "\\ud806\\udcd1", "\\ud806\\udcd2",
      "\\ud806\\udcd3", "\\ud806\\udcd4", "\\ud806\\udcd5", "\\ud806\\udcd6",
      "\\ud806\\udcd7", "\\ud806\\udcd8", "\\ud806\\udcd9", "\\ud806\\udcda",
      "\\ud806\\udcdb", "\\ud806\\udcdc", "\\ud806\\udcdd", "\\ud806\\udcde",
      "\\ud806\\udcdf", "\\ud81b\\ude40", "\\ud81b\\ude41", "\\ud81b\\ude42",
      "\\ud81b\\ude43", "\\ud81b\\ude44", "\\ud81b\\ude45", "\\ud81b\\ude46",
      "\\ud81b\\ude47", "\\ud81b\\ude48", "\\ud81b\\ude49", "\\ud81b\\ude4a",
      "\\ud81b\\ude4b", "\\ud81b\\ude4c", "\\ud81b\\ude4d", "\\ud81b\\ude4e",
      "\\ud81b\\ude4f", "\\ud81b\\ude50", "\\ud81b\\ude51", "\\ud81b\\ude52",
      "\\ud81b\\ude53", "\\ud81b\\ude54", "\\ud81b\\ude55", "\\ud81b\\ude56",
      "\\ud81b\\ude57", "\\ud81b\\ude58", "\\ud81b\\ude59", "\\ud81b\\ude5a",
      "\\ud81b\\ude5b", "\\ud81b\\ude5c", "\\ud81b\\ude5d", "\\ud81b\\ude5e",
      "\\ud81b\\ude5f", "\\ud81b\\ude60", "\\ud81b\\ude61", "\\ud81b\\ude62",
      "\\ud81b\\ude63", "\\ud81b\\ude64", "\\ud81b\\ude65", "\\ud81b\\ude66",
      "\\ud81b\\ude67", "\\ud81b\\ude68", "\\ud81b\\ude69", "\\ud81b\\ude6a",
      "\\ud81b\\ude6b", "\\ud81b\\ude6c", "\\ud81b\\ude6d", "\\ud81b\\ude6e",
      "\\ud81b\\ude6f", "\\ud81b\\ude70", "\\ud81b\\ude71", "\\ud81b\\ude72",
      "\\ud81b\\ude73", "\\ud81b\\ude74", "\\ud81b\\ude75", "\\ud81b\\ude76",
      "\\ud81b\\ude77", "\\ud81b\\ude78", "\\ud81b\\ude79", "\\ud81b\\ude7a",
      "\\ud81b\\ude7b", "\\ud81b\\ude7c", "\\ud81b\\ude7d", "\\ud81b\\ude7e",
      "\\ud81b\\ude7f", "\\ud835\\udc00", "\\ud835\\udc01", "\\ud835\\udc02",
      "\\ud835\\udc03", "\\ud835\\udc04", "\\ud835\\udc05", "\\ud835\\udc06",
      "\\ud835\\udc07", "\\ud835\\udc08", "\\ud835\\udc09", "\\ud835\\udc0a",
      "\\ud835\\udc0b", "\\ud835\\udc0c", "\\ud835\\udc0d", "\\ud835\\udc0e",
      "\\ud835\\udc0f", "\\ud835\\udc10", "\\ud835\\udc11", "\\ud835\\udc12",
      "\\ud835\\udc13", "\\ud835\\udc14", "\\ud835\\udc15", "\\ud835\\udc16",
      "\\ud835\\udc17", "\\ud835\\udc18", "\\ud835\\udc19", "\\ud835\\udc1a",
      "\\ud835\\udc1b", "\\ud835\\udc1c", "\\ud835\\udc1d", "\\ud835\\udc1e",
      "\\ud835\\udc1f", "\\ud835\\udc20", "\\ud835\\udc21", "\\ud835\\udc22",
      "\\ud835\\udc23", "\\ud835\\udc24", "\\ud835\\udc25", "\\ud835\\udc26",
      "\\ud835\\udc27", "\\ud835\\udc28", "\\ud835\\udc29", "\\ud835\\udc2a",
      "\\ud835\\udc2b", "\\ud835\\udc2c", "\\ud835\\udc2d", "\\ud835\\udc2e",
      "\\ud835\\udc2f", "\\ud835\\udc30", "\\ud835\\udc31", "\\ud835\\udc32",
      "\\ud835\\udc33", "\\ud835\\udc34", "\\ud835\\udc35", "\\ud835\\udc36",
      "\\ud835\\udc37", "\\ud835\\udc38", "\\ud835\\udc39", "\\ud835\\udc3a",
      "\\ud835\\udc3b", "\\ud835\\udc3c", "\\ud835\\udc3d", "\\ud835\\udc3e",
      "\\ud835\\udc3f", "\\ud835\\udc40", "\\ud835\\udc41", "\\ud835\\udc42",
      "\\ud835\\udc43", "\\ud835\\udc44", "\\ud835\\udc45", "\\ud835\\udc46",
      "\\ud835\\udc47", "\\ud835\\udc48", "\\ud835\\udc49", "\\ud835\\udc4a",
      "\\ud835\\udc4b", "\\ud835\\udc4c", "\\ud835\\udc4d", "\\ud835\\udc4e",
      "\\ud835\\udc4f", "\\ud835\\udc50", "\\ud835\\udc51", "\\ud835\\udc52",
      "\\ud835\\udc53", "\\ud835\\udc54", "\\ud835\\udc56", "\\ud835\\udc57",
      "\\ud835\\udc58", "\\ud835\\udc59", "\\ud835\\udc5a", "\\ud835\\udc5b",
      "\\ud835\\udc5c", "\\ud835\\udc5d", "\\ud835\\udc5e", "\\ud835\\udc5f",
      "\\ud835\\udc60", "\\ud835\\udc61", "\\ud835\\udc62", "\\ud835\\udc63",
      "\\ud835\\udc64", "\\ud835\\udc65", "\\ud835\\udc66", "\\ud835\\udc67",
      "\\ud835\\udc68", "\\ud835\\udc69", "\\ud835\\udc6a", "\\ud835\\udc6b",
      "\\ud835\\udc6c", "\\ud835\\udc6d", "\\ud835\\udc6e", "\\ud835\\udc6f",
      "\\ud835\\udc70", "\\ud835\\udc71", "\\ud835\\udc72", "\\ud835\\udc73",
      "\\ud835\\udc74", "\\ud835\\udc75", "\\ud835\\udc76", "\\ud835\\udc77",
      "\\ud835\\udc78", "\\ud835\\udc79", "\\ud835\\udc7a", "\\ud835\\udc7b",
      "\\ud835\\udc7c", "\\ud835\\udc7d", "\\ud835\\udc7e", "\\ud835\\udc7f",
      "\\ud835\\udc80", "\\ud835\\udc81", "\\ud835\\udc82", "\\ud835\\udc83",
      "\\ud835\\udc84", "\\ud835\\udc85", "\\ud835\\udc86", "\\ud835\\udc87",
      "\\ud835\\udc88", "\\ud835\\udc89", "\\ud835\\udc8a", "\\ud835\\udc8b",
      "\\ud835\\udc8c", "\\ud835\\udc8d", "\\ud835\\udc8e", "\\ud835\\udc8f",
      "\\ud835\\udc90", "\\ud835\\udc91", "\\ud835\\udc92", "\\ud835\\udc93",
      "\\ud835\\udc94", "\\ud835\\udc95", "\\ud835\\udc96", "\\ud835\\udc97",
      "\\ud835\\udc98", "\\ud835\\udc99", "\\ud835\\udc9a", "\\ud835\\udc9b",
      "\\ud835\\udc9c", "\\ud835\\udc9e", "\\ud835\\udc9f", "\\ud835\\udca2",
      "\\ud835\\udca5", "\\ud835\\udca6", "\\ud835\\udca9", "\\ud835\\udcaa",
      "\\ud835\\udcab", "\\ud835\\udcac", "\\ud835\\udcae", "\\ud835\\udcaf",
      "\\ud835\\udcb0", "\\ud835\\udcb1", "\\ud835\\udcb2", "\\ud835\\udcb3",
      "\\ud835\\udcb4", "\\ud835\\udcb5", "\\ud835\\udcb6", "\\ud835\\udcb7",
      "\\ud835\\udcb8", "\\ud835\\udcb9", "\\ud835\\udcbb", "\\ud835\\udcbd",
      "\\ud835\\udcbe", "\\ud835\\udcbf", "\\ud835\\udcc0", "\\ud835\\udcc1",
      "\\ud835\\udcc2", "\\ud835\\udcc3", "\\ud835\\udcc5", "\\ud835\\udcc6",
      "\\ud835\\udcc7", "\\ud835\\udcc8", "\\ud835\\udcc9", "\\ud835\\udcca",
      "\\ud835\\udccb", "\\ud835\\udccc", "\\ud835\\udccd", "\\ud835\\udcce",
      "\\ud835\\udccf", "\\ud835\\udcd0", "\\ud835\\udcd1", "\\ud835\\udcd2",
      "\\ud835\\udcd3", "\\ud835\\udcd4", "\\ud835\\udcd5", "\\ud835\\udcd6",
      "\\ud835\\udcd7", "\\ud835\\udcd8", "\\ud835\\udcd9", "\\ud835\\udcda",
      "\\ud835\\udcdb", "\\ud835\\udcdc", "\\ud835\\udcdd", "\\ud835\\udcde",
      "\\ud835\\udcdf", "\\ud835\\udce0", "\\ud835\\udce1", "\\ud835\\udce2",
      "\\ud835\\udce3", "\\ud835\\udce4", "\\ud835\\udce5", "\\ud835\\udce6",
      "\\ud835\\udce7", "\\ud835\\udce8", "\\ud835\\udce9", "\\ud835\\udcea",
      "\\ud835\\udceb", "\\ud835\\udcec", "\\ud835\\udced", "\\ud835\\udcee",
      "\\ud835\\udcef", "\\ud835\\udcf0", "\\ud835\\udcf1", "\\ud835\\udcf2",
      "\\ud835\\udcf3", "\\ud835\\udcf4", "\\ud835\\udcf5", "\\ud835\\udcf6",
      "\\ud835\\udcf7", "\\ud835\\udcf8", "\\ud835\\udcf9", "\\ud835\\udcfa",
      "\\ud835\\udcfb", "\\ud835\\udcfc", "\\ud835\\udcfd", "\\ud835\\udcfe",
      "\\ud835\\udcff", "\\ud835\\udd00", "\\ud835\\udd01", "\\ud835\\udd02",
      "\\ud835\\udd03", "\\ud835\\udd04", "\\ud835\\udd05", "\\ud835\\udd07",
      "\\ud835\\udd08", "\\ud835\\udd09", "\\ud835\\udd0a", "\\ud835\\udd0d",
      "\\ud835\\udd0e", "\\ud835\\udd0f", "\\ud835\\udd10", "\\ud835\\udd11",
      "\\ud835\\udd12", "\\ud835\\udd13", "\\ud835\\udd14", "\\ud835\\udd16",
      "\\ud835\\udd17", "\\ud835\\udd18", "\\ud835\\udd19", "\\ud835\\udd1a",
      "\\ud835\\udd1b", "\\ud835\\udd1c", "\\ud835\\udd1e", "\\ud835\\udd1f",
      "\\ud835\\udd20", "\\ud835\\udd21", "\\ud835\\udd22", "\\ud835\\udd23",
      "\\ud835\\udd24", "\\ud835\\udd25", "\\ud835\\udd26", "\\ud835\\udd27",
      "\\ud835\\udd28", "\\ud835\\udd29", "\\ud835\\udd2a", "\\ud835\\udd2b",
      "\\ud835\\udd2c", "\\ud835\\udd2d", "\\ud835\\udd2e", "\\ud835\\udd2f",
      "\\ud835\\udd30", "\\ud835\\udd31", "\\ud835\\udd32", "\\ud835\\udd33",
      "\\ud835\\udd34", "\\ud835\\udd35", "\\ud835\\udd36", "\\ud835\\udd37",
      "\\ud835\\udd38", "\\ud835\\udd39", "\\ud835\\udd3b", "\\ud835\\udd3c",
      "\\ud835\\udd3d", "\\ud835\\udd3e", "\\ud835\\udd40", "\\ud835\\udd41",
      "\\ud835\\udd42", "\\ud835\\udd43", "\\ud835\\udd44", "\\ud835\\udd46",
      "\\ud835\\udd4a", "\\ud835\\udd4b", "\\ud835\\udd4c", "\\ud835\\udd4d",
      "\\ud835\\udd4e", "\\ud835\\udd4f", "\\ud835\\udd50", "\\ud835\\udd52",
      "\\ud835\\udd53", "\\ud835\\udd54", "\\ud835\\udd55", "\\ud835\\udd56",
      "\\ud835\\udd57", "\\ud835\\udd58", "\\ud835\\udd59", "\\ud835\\udd5a",
      "\\ud835\\udd5b", "\\ud835\\udd5c", "\\ud835\\udd5d", "\\ud835\\udd5e",
      "\\ud835\\udd5f", "\\ud835\\udd60", "\\ud835\\udd61", "\\ud835\\udd62",
      "\\ud835\\udd63", "\\ud835\\udd64", "\\ud835\\udd65", "\\ud835\\udd66",
      "\\ud835\\udd67", "\\ud835\\udd68", "\\ud835\\udd69", "\\ud835\\udd6a",
      "\\ud835\\udd6b", "\\ud835\\udd6c", "\\ud835\\udd6d", "\\ud835\\udd6e",
      "\\ud835\\udd6f", "\\ud835\\udd70", "\\ud835\\udd71", "\\ud835\\udd72",
      "\\ud835\\udd73", "\\ud835\\udd74", "\\ud835\\udd75", "\\ud835\\udd76",
      "\\ud835\\udd77", "\\ud835\\udd78", "\\ud835\\udd79", "\\ud835\\udd7a",
      "\\ud835\\udd7b", "\\ud835\\udd7c", "\\ud835\\udd7d", "\\ud835\\udd7e",
      "\\ud835\\udd7f", "\\ud835\\udd80", "\\ud835\\udd81", "\\ud835\\udd82",
      "\\ud835\\udd83", "\\ud835\\udd84", "\\ud835\\udd85", "\\ud835\\udd86",
      "\\ud835\\udd87", "\\ud835\\udd88", "\\ud835\\udd89", "\\ud835\\udd8a",
      "\\ud835\\udd8b", "\\ud835\\udd8c", "\\ud835\\udd8d", "\\ud835\\udd8e",
      "\\ud835\\udd8f", "\\ud835\\udd90", "\\ud835\\udd91", "\\ud835\\udd92",
      "\\ud835\\udd93", "\\ud835\\udd94", "\\ud835\\udd95", "\\ud835\\udd96",
      "\\ud835\\udd97", "\\ud835\\udd98", "\\ud835\\udd99", "\\ud835\\udd9a",
      "\\ud835\\udd9b", "\\ud835\\udd9c", "\\ud835\\udd9d", "\\ud835\\udd9e",
      "\\ud835\\udd9f", "\\ud835\\udda0", "\\ud835\\udda1", "\\ud835\\udda2",
      "\\ud835\\udda3", "\\ud835\\udda4", "\\ud835\\udda5", "\\ud835\\udda6",
      "\\ud835\\udda7", "\\ud835\\udda8", "\\ud835\\udda9", "\\ud835\\uddaa",
      "\\ud835\\uddab", "\\ud835\\uddac", "\\ud835\\uddad", "\\ud835\\uddae",
      "\\ud835\\uddaf", "\\ud835\\uddb0", "\\ud835\\uddb1", "\\ud835\\uddb2",
      "\\ud835\\uddb3", "\\ud835\\uddb4", "\\ud835\\uddb5", "\\ud835\\uddb6",
      "\\ud835\\uddb7", "\\ud835\\uddb8", "\\ud835\\uddb9", "\\ud835\\uddba",
      "\\ud835\\uddbb", "\\ud835\\uddbc", "\\ud835\\uddbd", "\\ud835\\uddbe",
      "\\ud835\\uddbf", "\\ud835\\uddc0", "\\ud835\\uddc1", "\\ud835\\uddc2",
      "\\ud835\\uddc3", "\\ud835\\uddc4", "\\ud835\\uddc5", "\\ud835\\uddc6",
      "\\ud835\\uddc7", "\\ud835\\uddc8", "\\ud835\\uddc9", "\\ud835\\uddca",
      "\\ud835\\uddcb", "\\ud835\\uddcc", "\\ud835\\uddcd", "\\ud835\\uddce",
      "\\ud835\\uddcf", "\\ud835\\uddd0", "\\ud835\\uddd1", "\\ud835\\uddd2",
      "\\ud835\\uddd3", "\\ud835\\uddd4", "\\ud835\\uddd5", "\\ud835\\uddd6",
      "\\ud835\\uddd7", "\\ud835\\uddd8", "\\ud835\\uddd9", "\\ud835\\uddda",
      "\\ud835\\udddb", "\\ud835\\udddc", "\\ud835\\udddd", "\\ud835\\uddde",
      "\\ud835\\udddf", "\\ud835\\udde0", "\\ud835\\udde1", "\\ud835\\udde2",
      "\\ud835\\udde3", "\\ud835\\udde4", "\\ud835\\udde5", "\\ud835\\udde6",
      "\\ud835\\udde7", "\\ud835\\udde8", "\\ud835\\udde9", "\\ud835\\uddea",
      "\\ud835\\uddeb", "\\ud835\\uddec", "\\ud835\\udded", "\\ud835\\uddee",
      "\\ud835\\uddef", "\\ud835\\uddf0", "\\ud835\\uddf1", "\\ud835\\uddf2",
      "\\ud835\\uddf3", "\\ud835\\uddf4", "\\ud835\\uddf5", "\\ud835\\uddf6",
      "\\ud835\\uddf7", "\\ud835\\uddf8", "\\ud835\\uddf9", "\\ud835\\uddfa",
      "\\ud835\\uddfb", "\\ud835\\uddfc", "\\ud835\\uddfd", "\\ud835\\uddfe",
      "\\ud835\\uddff", "\\ud835\\ude00", "\\ud835\\ude01", "\\ud835\\ude02",
      "\\ud835\\ude03", "\\ud835\\ude04", "\\ud835\\ude05", "\\ud835\\ude06",
      "\\ud835\\ude07", "\\ud835\\ude08", "\\ud835\\ude09", "\\ud835\\ude0a",
      "\\ud835\\ude0b", "\\ud835\\ude0c", "\\ud835\\ude0d", "\\ud835\\ude0e",
      "\\ud835\\ude0f", "\\ud835\\ude10", "\\ud835\\ude11", "\\ud835\\ude12",
      "\\ud835\\ude13", "\\ud835\\ude14", "\\ud835\\ude15", "\\ud835\\ude16",
      "\\ud835\\ude17", "\\ud835\\ude18", "\\ud835\\ude19", "\\ud835\\ude1a",
      "\\ud835\\ude1b", "\\ud835\\ude1c", "\\ud835\\ude1d", "\\ud835\\ude1e",
      "\\ud835\\ude1f", "\\ud835\\ude20", "\\ud835\\ude21", "\\ud835\\ude22",
      "\\ud835\\ude23", "\\ud835\\ude24", "\\ud835\\ude25", "\\ud835\\ude26",
      "\\ud835\\ude27", "\\ud835\\ude28", "\\ud835\\ude29", "\\ud835\\ude2a",
      "\\ud835\\ude2b", "\\ud835\\ude2c", "\\ud835\\ude2d", "\\ud835\\ude2e",
      "\\ud835\\ude2f", "\\ud835\\ude30", "\\ud835\\ude31", "\\ud835\\ude32",
      "\\ud835\\ude33", "\\ud835\\ude34", "\\ud835\\ude35", "\\ud835\\ude36",
      "\\ud835\\ude37", "\\ud835\\ude38", "\\ud835\\ude39", "\\ud835\\ude3a",
      "\\ud835\\ude3b", "\\ud835\\ude3c", "\\ud835\\ude3d", "\\ud835\\ude3e",
      "\\ud835\\ude3f", "\\ud835\\ude40", "\\ud835\\ude41", "\\ud835\\ude42",
      "\\ud835\\ude43", "\\ud835\\ude44", "\\ud835\\ude45", "\\ud835\\ude46",
      "\\ud835\\ude47", "\\ud835\\ude48", "\\ud835\\ude49", "\\ud835\\ude4a",
      "\\ud835\\ude4b", "\\ud835\\ude4c", "\\ud835\\ude4d", "\\ud835\\ude4e",
      "\\ud835\\ude4f", "\\ud835\\ude50", "\\ud835\\ude51", "\\ud835\\ude52",
      "\\ud835\\ude53", "\\ud835\\ude54", "\\ud835\\ude55", "\\ud835\\ude56",
      "\\ud835\\ude57", "\\ud835\\ude58", "\\ud835\\ude59", "\\ud835\\ude5a",
      "\\ud835\\ude5b", "\\ud835\\ude5c", "\\ud835\\ude5d", "\\ud835\\ude5e",
      "\\ud835\\ude5f", "\\ud835\\ude60", "\\ud835\\ude61", "\\ud835\\ude62",
      "\\ud835\\ude63", "\\ud835\\ude64", "\\ud835\\ude65", "\\ud835\\ude66",
      "\\ud835\\ude67", "\\ud835\\ude68", "\\ud835\\ude69", "\\ud835\\ude6a",
      "\\ud835\\ude6b", "\\ud835\\ude6c", "\\ud835\\ude6d", "\\ud835\\ude6e",
      "\\ud835\\ude6f", "\\ud835\\ude70", "\\ud835\\ude71", "\\ud835\\ude72",
      "\\ud835\\ude73", "\\ud835\\ude74", "\\ud835\\ude75", "\\ud835\\ude76",
      "\\ud835\\ude77", "\\ud835\\ude78", "\\ud835\\ude79", "\\ud835\\ude7a",
      "\\ud835\\ude7b", "\\ud835\\ude7c", "\\ud835\\ude7d", "\\ud835\\ude7e",
      "\\ud835\\ude7f", "\\ud835\\ude80", "\\ud835\\ude81", "\\ud835\\ude82",
      "\\ud835\\ude83", "\\ud835\\ude84", "\\ud835\\ude85", "\\ud835\\ude86",
      "\\ud835\\ude87", "\\ud835\\ude88", "\\ud835\\ude89", "\\ud835\\ude8a",
      "\\ud835\\ude8b", "\\ud835\\ude8c", "\\ud835\\ude8d", "\\ud835\\ude8e",
      "\\ud835\\ude8f", "\\ud835\\ude90", "\\ud835\\ude91", "\\ud835\\ude92",
      "\\ud835\\ude93", "\\ud835\\ude94", "\\ud835\\ude95", "\\ud835\\ude96",
      "\\ud835\\ude97", "\\ud835\\ude98", "\\ud835\\ude99", "\\ud835\\ude9a",
      "\\ud835\\ude9b", "\\ud835\\ude9c", "\\ud835\\ude9d", "\\ud835\\ude9e",
      "\\ud835\\ude9f", "\\ud835\\udea0", "\\ud835\\udea1", "\\ud835\\udea2",
      "\\ud835\\udea3", "\\ud835\\udea4", "\\ud835\\udea5", "\\ud835\\udea8",
      "\\ud835\\udea9", "\\ud835\\udeaa", "\\ud835\\udeab", "\\ud835\\udeac",
      "\\ud835\\udead", "\\ud835\\udeae", "\\ud835\\udeaf", "\\ud835\\udeb0",
      "\\ud835\\udeb1", "\\ud835\\udeb2", "\\ud835\\udeb3", "\\ud835\\udeb4",
      "\\ud835\\udeb5", "\\ud835\\udeb6", "\\ud835\\udeb7", "\\ud835\\udeb8",
      "\\ud835\\udeb9", "\\ud835\\udeba", "\\ud835\\udebb", "\\ud835\\udebc",
      "\\ud835\\udebd", "\\ud835\\udebe", "\\ud835\\udebf", "\\ud835\\udec0",
      "\\ud835\\udec2", "\\ud835\\udec3", "\\ud835\\udec4", "\\ud835\\udec5",
      "\\ud835\\udec6", "\\ud835\\udec7", "\\ud835\\udec8", "\\ud835\\udec9",
      "\\ud835\\udeca", "\\ud835\\udecb", "\\ud835\\udecc", "\\ud835\\udecd",
      "\\ud835\\udece", "\\ud835\\udecf", "\\ud835\\uded0", "\\ud835\\uded1",
      "\\ud835\\uded2", "\\ud835\\uded3", "\\ud835\\uded4", "\\ud835\\uded5",
      "\\ud835\\uded6", "\\ud835\\uded7", "\\ud835\\uded8", "\\ud835\\uded9",
      "\\ud835\\udeda", "\\ud835\\udedc", "\\ud835\\udedd", "\\ud835\\udede",
      "\\ud835\\udedf", "\\ud835\\udee0", "\\ud835\\udee1", "\\ud835\\udee2",
      "\\ud835\\udee3", "\\ud835\\udee4", "\\ud835\\udee5", "\\ud835\\udee6",
      "\\ud835\\udee7", "\\ud835\\udee8", "\\ud835\\udee9", "\\ud835\\udeea",
      "\\ud835\\udeeb", "\\ud835\\udeec", "\\ud835\\udeed", "\\ud835\\udeee",
      "\\ud835\\udeef", "\\ud835\\udef0", "\\ud835\\udef1", "\\ud835\\udef2",
      "\\ud835\\udef3", "\\ud835\\udef4", "\\ud835\\udef5", "\\ud835\\udef6",
      "\\ud835\\udef7", "\\ud835\\udef8", "\\ud835\\udef9", "\\ud835\\udefa",
      "\\ud835\\udefc", "\\ud835\\udefd", "\\ud835\\udefe", "\\ud835\\udeff",
      "\\ud835\\udf00", "\\ud835\\udf01", "\\ud835\\udf02", "\\ud835\\udf03",
      "\\ud835\\udf04", "\\ud835\\udf05", "\\ud835\\udf06", "\\ud835\\udf07",
      "\\ud835\\udf08", "\\ud835\\udf09", "\\ud835\\udf0a", "\\ud835\\udf0b",
      "\\ud835\\udf0c", "\\ud835\\udf0d", "\\ud835\\udf0e", "\\ud835\\udf0f",
      "\\ud835\\udf10", "\\ud835\\udf11", "\\ud835\\udf12", "\\ud835\\udf13",
      "\\ud835\\udf14", "\\ud835\\udf16", "\\ud835\\udf17", "\\ud835\\udf18",
      "\\ud835\\udf19", "\\ud835\\udf1a", "\\ud835\\udf1b", "\\ud835\\udf1c",
      "\\ud835\\udf1d", "\\ud835\\udf1e", "\\ud835\\udf1f", "\\ud835\\udf20",
      "\\ud835\\udf21", "\\ud835\\udf22", "\\ud835\\udf23", "\\ud835\\udf24",
      "\\ud835\\udf25", "\\ud835\\udf26", "\\ud835\\udf27", "\\ud835\\udf28",
      "\\ud835\\udf29", "\\ud835\\udf2a", "\\ud835\\udf2b", "\\ud835\\udf2c",
      "\\ud835\\udf2d", "\\ud835\\udf2e", "\\ud835\\udf2f", "\\ud835\\udf30",
      "\\ud835\\udf31", "\\ud835\\udf32", "\\ud835\\udf33", "\\ud835\\udf34",
      "\\ud835\\udf36", "\\ud835\\udf37", "\\ud835\\udf38", "\\ud835\\udf39",
      "\\ud835\\udf3a", "\\ud835\\udf3b", "\\ud835\\udf3c", "\\ud835\\udf3d",
      "\\ud835\\udf3e", "\\ud835\\udf3f", "\\ud835\\udf40", "\\ud835\\udf41",
      "\\ud835\\udf42", "\\ud835\\udf43", "\\ud835\\udf44", "\\ud835\\udf45",
      "\\ud835\\udf46", "\\ud835\\udf47", "\\ud835\\udf48", "\\ud835\\udf49",
      "\\ud835\\udf4a", "\\ud835\\udf4b", "\\ud835\\udf4c", "\\ud835\\udf4d",
      "\\ud835\\udf4e", "\\ud835\\udf50", "\\ud835\\udf51", "\\ud835\\udf52",
      "\\ud835\\udf53", "\\ud835\\udf54", "\\ud835\\udf55", "\\ud835\\udf56",
      "\\ud835\\udf57", "\\ud835\\udf58", "\\ud835\\udf59", "\\ud835\\udf5a",
      "\\ud835\\udf5b", "\\ud835\\udf5c", "\\ud835\\udf5d", "\\ud835\\udf5e",
      "\\ud835\\udf5f", "\\ud835\\udf60", "\\ud835\\udf61", "\\ud835\\udf62",
      "\\ud835\\udf63", "\\ud835\\udf64", "\\ud835\\udf65", "\\ud835\\udf66",
      "\\ud835\\udf67", "\\ud835\\udf68", "\\ud835\\udf69", "\\ud835\\udf6a",
      "\\ud835\\udf6b", "\\ud835\\udf6c", "\\ud835\\udf6d", "\\ud835\\udf6e",
      "\\ud835\\udf70", "\\ud835\\udf71", "\\ud835\\udf72", "\\ud835\\udf73",
      "\\ud835\\udf74", "\\ud835\\udf75", "\\ud835\\udf76", "\\ud835\\udf77",
      "\\ud835\\udf78", "\\ud835\\udf79", "\\ud835\\udf7a", "\\ud835\\udf7b",
      "\\ud835\\udf7c", "\\ud835\\udf7d", "\\ud835\\udf7e", "\\ud835\\udf7f",
      "\\ud835\\udf80", "\\ud835\\udf81", "\\ud835\\udf82", "\\ud835\\udf83",
      "\\ud835\\udf84", "\\ud835\\udf85", "\\ud835\\udf86", "\\ud835\\udf87",
      "\\ud835\\udf88", "\\ud835\\udf8a", "\\ud835\\udf8b", "\\ud835\\udf8c",
      "\\ud835\\udf8d", "\\ud835\\udf8e", "\\ud835\\udf8f", "\\ud835\\udf90",
      "\\ud835\\udf91", "\\ud835\\udf92", "\\ud835\\udf93", "\\ud835\\udf94",
      "\\ud835\\udf95", "\\ud835\\udf96", "\\ud835\\udf97", "\\ud835\\udf98",
      "\\ud835\\udf99", "\\ud835\\udf9a", "\\ud835\\udf9b", "\\ud835\\udf9c",
      "\\ud835\\udf9d", "\\ud835\\udf9e", "\\ud835\\udf9f", "\\ud835\\udfa0",
      "\\ud835\\udfa1", "\\ud835\\udfa2", "\\ud835\\udfa3", "\\ud835\\udfa4",
      "\\ud835\\udfa5", "\\ud835\\udfa6", "\\ud835\\udfa7", "\\ud835\\udfa8",
      "\\ud835\\udfaa", "\\ud835\\udfab", "\\ud835\\udfac", "\\ud835\\udfad",
      "\\ud835\\udfae", "\\ud835\\udfaf", "\\ud835\\udfb0", "\\ud835\\udfb1",
      "\\ud835\\udfb2", "\\ud835\\udfb3", "\\ud835\\udfb4", "\\ud835\\udfb5",
      "\\ud835\\udfb6", "\\ud835\\udfb7", "\\ud835\\udfb8", "\\ud835\\udfb9",
      "\\ud835\\udfba", "\\ud835\\udfbb", "\\ud835\\udfbc", "\\ud835\\udfbd",
      "\\ud835\\udfbe", "\\ud835\\udfbf", "\\ud835\\udfc0", "\\ud835\\udfc1",
      "\\ud835\\udfc2", "\\ud835\\udfc4", "\\ud835\\udfc5", "\\ud835\\udfc6",
      "\\ud835\\udfc7", "\\ud835\\udfc8", "\\ud835\\udfc9", "\\ud835\\udfca",
      "\\ud835\\udfcb", "\\ud837\\udf00", "\\ud837\\udf01", "\\ud837\\udf02",
      "\\ud837\\udf03", "\\ud837\\udf04", "\\ud837\\udf05", "\\ud837\\udf06",
      "\\ud837\\udf07", "\\ud837\\udf08", "\\ud837\\udf09", "\\ud837\\udf0b",
      "\\ud837\\udf0c", "\\ud837\\udf0d", "\\ud837\\udf0e", "\\ud837\\udf0f",
      "\\ud837\\udf10", "\\ud837\\udf11", "\\ud837\\udf12", "\\ud837\\udf13",
      "\\ud837\\udf14", "\\ud837\\udf15", "\\ud837\\udf16", "\\ud837\\udf17",
      "\\ud837\\udf18", "\\ud837\\udf19", "\\ud837\\udf1a", "\\ud837\\udf1b",
      "\\ud837\\udf1c", "\\ud837\\udf1d", "\\ud837\\udf1e", "\\ud83a\\udd00",
      "\\ud83a\\udd01", "\\ud83a\\udd02", "\\ud83a\\udd03", "\\ud83a\\udd04",
      "\\ud83a\\udd05", "\\ud83a\\udd06", "\\ud83a\\udd07", "\\ud83a\\udd08",
      "\\ud83a\\udd09", "\\ud83a\\udd0a", "\\ud83a\\udd0b", "\\ud83a\\udd0c",
      "\\ud83a\\udd0d", "\\ud83a\\udd0e", "\\ud83a\\udd0f", "\\ud83a\\udd10",
      "\\ud83a\\udd11", "\\ud83a\\udd12", "\\ud83a\\udd13", "\\ud83a\\udd14",
      "\\ud83a\\udd15", "\\ud83a\\udd16", "\\ud83a\\udd17", "\\ud83a\\udd18",
      "\\ud83a\\udd19", "\\ud83a\\udd1a", "\\ud83a\\udd1b", "\\ud83a\\udd1c",
      "\\ud83a\\udd1d", "\\ud83a\\udd1e", "\\ud83a\\udd1f", "\\ud83a\\udd20",
      "\\ud83a\\udd21", "\\ud83a\\udd22", "\\ud83a\\udd23", "\\ud83a\\udd24",
      "\\ud83a\\udd25", "\\ud83a\\udd26", "\\ud83a\\udd27", "\\ud83a\\udd28",
      "\\ud83a\\udd29", "\\ud83a\\udd2a", "\\ud83a\\udd2b", "\\ud83a\\udd2c",
      "\\ud83a\\udd2d", "\\ud83a\\udd2e", "\\ud83a\\udd2f", "\\ud83a\\udd30",
      "\\ud83a\\udd31", "\\ud83a\\udd32", "\\ud83a\\udd33", "\\ud83a\\udd34",
      "\\ud83a\\udd35", "\\ud83a\\udd36", "\\ud83a\\udd37", "\\ud83a\\udd38",
      "\\ud83a\\udd39", "\\ud83a\\udd3a", "\\ud83a\\udd3b", "\\ud83a\\udd3c",
      "\\ud83a\\udd3d", "\\ud83a\\udd3e", "\\ud83a\\udd3f", "\\ud83a\\udd40",
      "\\ud83a\\udd41", "\\ud83a\\udd42", "\\ud83a\\udd43", "\\ud83c\\udd30",
      "\\ud83c\\udd31", "\\ud83c\\udd32", "\\ud83c\\udd33", "\\ud83c\\udd34",
      "\\ud83c\\udd35", "\\ud83c\\udd36", "\\ud83c\\udd37", "\\ud83c\\udd38",
      "\\ud83c\\udd39", "\\ud83c\\udd3a", "\\ud83c\\udd3b", "\\ud83c\\udd3c",
      "\\ud83c\\udd3d", "\\ud83c\\udd3e", "\\ud83c\\udd3f", "\\ud83c\\udd40",
      "\\ud83c\\udd41", "\\ud83c\\udd42", "\\ud83c\\udd43", "\\ud83c\\udd44",
      "\\ud83c\\udd45", "\\ud83c\\udd46", "\\ud83c\\udd47", "\\ud83c\\udd48",
      "\\ud83c\\udd49", "\\ud83c\\udd50", "\\ud83c\\udd51", "\\ud83c\\udd52",
      "\\ud83c\\udd53", "\\ud83c\\udd54", "\\ud83c\\udd55", "\\ud83c\\udd56",
      "\\ud83c\\udd57", "\\ud83c\\udd58", "\\ud83c\\udd59", "\\ud83c\\udd5a",
      "\\ud83c\\udd5b", "\\ud83c\\udd5c", "\\ud83c\\udd5d", "\\ud83c\\udd5e",
      "\\ud83c\\udd5f", "\\ud83c\\udd60", "\\ud83c\\udd61", "\\ud83c\\udd62",
      "\\ud83c\\udd63", "\\ud83c\\udd64", "\\ud83c\\udd65", "\\ud83c\\udd66",
      "\\ud83c\\udd67", "\\ud83c\\udd68", "\\ud83c\\udd69", "\\ud83c\\udd70",
      "\\ud83c\\udd71", "\\ud83c\\udd72", "\\ud83c\\udd73", "\\ud83c\\udd74",
      "\\ud83c\\udd75", "\\ud83c\\udd76", "\\ud83c\\udd77", "\\ud83c\\udd78",
      "\\ud83c\\udd79", "\\ud83c\\udd7a", "\\ud83c\\udd7b", "\\ud83c\\udd7c",
      "\\ud83c\\udd7d", "\\ud83c\\udd7e", "\\ud83c\\udd7f", "\\ud83c\\udd80",
      "\\ud83c\\udd81", "\\ud83c\\udd82", "\\ud83c\\udd83", "\\ud83c\\udd84",
      "\\ud83c\\udd85", "\\ud83c\\udd86", "\\ud83c\\udd87", "\\ud83c\\udd88",
      "\\ud83c\\udd89"}

\* the case-ignorable characters (without U+0060, which no string of this
\* module can hold)
CaseIgnorable ==
    {"'", ".", ":", "^", "\\u00a8", "\\u00ad", "\\u00af", "\\u00b4",
      "\\u00b7", "\\u00b8", "\\u02b0", "\\u02b1", "\\u02b2", "\\u02b3",
      "\\u02b4", "\\u02b5", "\\u02b6", "\\u02b7", "\\u02b8", "\\u02b9",
      "\\u02ba", "\\u02bb", "\\u02bc", "\\u02bd", "\\u02be", "\\u02bf",
      "\\u02c0", "\\u02c1", "\\u02c2", "\\u02c3", "\\u02c4", "\\u02c5",
      "\\u02c6", "\\u02c7", "\\u02c8", "\\u02c9", "\\u02ca", "\\u02cb",
      "\\u02cc", "\\u02cd", "\\u02ce", "\\u02cf", "\\u02d0", "\\u02d1",
      "\\u02d2", "\\u02d3", "\\u02d4", "\\u02d5", "\\u02d6", "\\u02d7",
      "\\u02d8", "\\u02d9", "\\u02da", "\\u02db", "\\u02dc", "\\u02dd",
      "\\u02de", "\\u02df", "\\u02e0", "\\u02e1", "\\u02e2", "\\u02e3",
      "\\u02e4", "\\u02e5", "\\u02e6", "\\u02e7", "\\u02e8", "\\u02e9",
      "\\u02ea", "\\u02eb", "\\u02ec", "\\u02ed", "\\u02ee", "\\u02ef",
      "\\u02f0", "\\u02f1", "\\u02f2", "\\u02f3", "\\u02f4", "\\u02f5",
      "\\u02f6", "\\u02f7", "\\u02f8", "\\u02f9", "\\u02fa", "\\u02fb",
      "\\u02fc", "\\u02fd", "\\u02fe", "\\u02ff", "\\u0300", "\\u0301",
      "\\u0302", "\\u0303", "\\u0304", "\\u0305", "\\u0306", "\\u0307",
      "\\u0308", "\\u0309", "\\u030a", "\\u030b", "\\u030c", "\\u030d",
      "\\u030e", "\\u030f", "\\u0310", "\\u0311", "\\u0312", "\\u0313",
      "\\u0314", "\\u0315", "\\u0316", "\\u0317", "\\u0318", "\\u0319",
      "\\u031a", "\\u031b", "\\u031c", "\\u031d", "\\u031e", "\\u031f",
      "\\u0320", "\\u0321", "\\u0322", "\\u0323", "\\u0324", "\\u0325",
      "\\u0326", "\\u0327", "\\u0328", "\\u0329", "\\u032a", "\\u032b",
      "\\u032c", "\\u032d", "\\u032e", "\\u032f", "\\u0330", "\\u0331",
      "\\u0332", "\\u0333", "\\u0334", "\\u0335", "\\u0336", "\\u0337",
      "\\u0338", "\\u0339", "\\u033a", "\\u033b", "\\u033c", "\\u033d",
      "\\u033e", "\\u033f", "\\u0340", "\\u0341", "\\u0342", "\\u0343",
      "\\u0344", "\\u0345", "\\u0346", "\\u0347", "\\u0348", "\\u0349",
      "\\u034a", "\\u034b", "\\u034c", "\\u034d", "\\u034e", "\\u034f",
      "\\u0350", "\\u0351", "\\u0352", "\\u0353", "\\u0354", "\\u0355",
      "\\u0356", "\\u0357", "\\u0358", "\\u0359", "\\u035a", "\\u035b",
      "\\u035c", "\\u035d", "\\u035e", "\\u035f", "\\u0360", "\\u0361",
      "\\u0362", "\\u0363", "\\u0364", "\\u0365", "\\u0366", "\\u0367",
      "\\u0368", "\\u0369", "\\u036a", "\\u036b", "\\u036c", "\\u036d",
      "\\u036e", "\\u036f", "\\u0374", "\\u0375", "\\u037a", "\\u0384",
      "\\u0385", "\\u0387", "\\u0483", "\\u0484", "\\u0485", "\\u0486",
      "\\u0487", "\\u0488", "\\u0489", "\\u0559", "\\u055f", "\\u0591",
      "\\u0592", "\\u0593", "\\u0594", "\\u0595", "\\u0596", "\\u0597",
      "\\u0598", "\\u0599", "\\u059a", "\\u059b", "\\u059c", "\\u059d",
      "\\u059e", "\\u059f", "\\u05a0", "\\u05a1", "\\u05a2", "\\u05a3",
      "\\u05a4", "\\u05a5", "\\u05a6", "\\u05a7", "\\u05a8", "\\u05a9",
      "\\u05aa", "\\u05ab", "\\u05ac", "\\u05ad", "\\u05ae", "\\u05af",
      "\\u05b0", "\\u05b1", "\\u05b2", "\\u05b3", "\\u05b4", "\\u05b5",
      "\\u05b6", "\\u05b7", "\\u05b8", "\\u05b9", "\\u05ba", "\\u05bb",
      "\\u05bc", "\\u05bd", "\\u05bf", "\\u05c1", "\\u05c2", "\\u05c4",
      "\\u05c5", "\\u05c7", "\\u05f4", "\\u0600", "\\u0601", "\\u0602",
      "\\u0603", "\\u0604", "\\u0605", "\\u0610", "\\u0611", "\\u0612",
      "\\u0613", "\\u0614", "\\u0615", "\\u0616", "\\u0617", "\\u0618",
      "\\u0619", "\\u061a", "\\u061c", "\\u0640", "\\u064b", "\\u064c",
      "\\u064d", "\\u064e", "\\u064f", "\\u0650", "\\u0651", "\\u0652",
      "\\u0653", "\\u0654", "\\u0655", "\\u0656", "\\u0657", "\\u0658",
      "\\u0659", "\\u065a", "\\u065b", "\\u065c", "\\u065d", "\\u065e",
      "\\u065f", "\\u0670", "\\u06d6", "\\u06d7", "\\u06d8", "\\u06d9",
      "\\u06da", "\\u06db", "\\u06dc", "\\u06dd", "\\u06df", "\\u06e0",
      "\\u06e1", "\\u06e2", "\\u06e3", "\\u06e4", "\\u06e5", "\\u06e6",
      "\\u06e7", "\\u06e8", "\\u06ea", "\\u06eb", "\\u06ec", "\\u06ed",
      "\\u070f", "\\u0711", "\\u0730", "\\u0731", "\\u0732", "\\u0733",
      "\\u0734", "\\u0735", "\\u0736", "\\u0737", "\\u0738", "\\u0739",
      "\\u073a", "\\u073b", "\\u073c", "\\u073d", "\\u073e", "\\u073f",
      "\\u0740", "\\u0741", "\\u0742", "\\u0743", "\\u0744", "\\u0745",
      "\\u0746", "\\u0747", "\\u0748", "\\u0749", "\\u074a", "\\u07a6",
      "\\u07a7", "\\u07a8", "\\u07a9", "\\u07aa", "\\u07ab", "\\u07ac",
      "\\u07ad", "\\u07ae", "\\u07af", "\\u07b0", "\\u07eb", "\\u07ec",
      "\\u07ed", "\\u07ee", "\\u07ef", "\\u07f0", "\\u07f1", "\\u07f2",
      "\\u07f3", "\\u07f4", "\\u07f5", "\\u07fa", "\\u07fd", "\\u0816",
      "\\u0817", "\\u0818", "\\u0819", "\\u081a", "\\u081b", "\\u081c",
      "\\u081d", "\\u081e", "\\u081f", "\\u0820", "\\u0821", "\\u0822",
      "\\u0823", "\\u0824", "\\u0825", "\\u0826", "\\u0827", "\\u0828",
      "\\u0829", "\\u082a", "\\u082b", "\\u082c", "\\u082d", "\\u0859",
      "\\u085a", "\\u085b", "\\u0888", "\\u0890", "\\u0891", "\\u0898",
      "\\u0899", "\\u089a", "\\u089b", "\\u089c", "\\u089d", "\\u089e",
      "\\u089f", "\\u08c9", "\\u08ca", "\\u08cb", "\\u08cc", "\\u08cd",
      "\\u08ce", "\\u08cf", "\\u08d0", "\\u08d1", "\\u08d2", "\\u08d3",
      "\\u08d4", "\\u08d5", "\\u08d6", "\\u08d7", "\\u08d8", "\\u08d9",
      "\\u08da", "\\u08db", "\\u08dc", "\\u08dd", "\\u08de", "\\u08df",
      "\\u08e0", "\\u08e1", "\\u08e2", "\\u08e3", "\\u08e4", "\\u08e5",
      "\\u08e6", "\\u08e7", "\\u08e8", "\\u08e9", "\\u08ea", "\\u08eb",
      "\\u08ec", "\\u08ed", "\\u08ee", "\\u08ef", "\\u08f0", "\\u08f1",
      "\\u08f2", "\\u08f3", "\\u08f4", "\\u08f5", "\\u08f6", "\\u08f7",
      "\\u08f8", "\\u08f9", "\\u08fa", "\\u08fb", "\\u08fc", "\\u08fd",
      "\\u08fe", "\\u08ff", "\\u0900", "\\u0901", "\\u0902", "\\u093a",
      "\\u093c", "\\u0941", "\\u0942", "\\u0943", "\\u0944", "\\u0945",
      "\\u0946", "\\u0947", "\\u0948", "\\u094d", "\\u0951", "\\u0952",
      "\\u0953", "\\u0954", "\\u0955", "\\u0956", "\\u0957", "\\u0962",
      "\\u0963", "\\u0971", "\\u0981", "\\u09bc", "\\u09c1", "\\u09c2",
      "\\u09c3", "\\u09c4", "\\u09cd", "\\u09e2", "\\u09e3", "\\u09fe",
      "\\u0a01", "\\u0a02", "\\u0a3c", "\\u0a41", "\\u0a42", "\\u0a47",
      "\\u0a48", "\\u0a4b", "\\u0a4c", "\\u0a4d", "\\u0a51", "\\u0a70",
      "\\u0a71", "\\u0a75", "\\u0a81", "\\u0a82", "\\u0abc", "\\u0ac1",
      "\\u0ac2", "\\u0ac3", "\\u0ac4", "\\u0ac5", "\\u0ac7", "\\u0ac8",
      "\\u0acd", "\\u0ae2", "\\u0ae3", "\\u0afa", "\\u0afb", "\\u0afc",
      "\\u0afd", "\\u0afe", "\\u0aff", "\\u0b01", "\\u0b3c", "\\u0b3f",
      "\\u0b41", "\\u0b42", "\\u0b43", "\\u0b44", "\\u0b4d", "\\u0b55",
      "\\u0b56", "\\u0b62", "\\u0b63", "\\u0b82", "\\u0bc0", "\\u0bcd",
      "\\u0c00", "\\u0c04", "\\u0c3c", "\\u0c3e", "\\u0c3f", "\\u0c40",
      "\\u0c46", "\\u0c47", "\\u0c48", "\\u0c4a", "\\u0c4b", "\\u0c4c",
      "\\u0c4d", "\\u0c55", "\\u0c56", "\\u0c62", "\\u0c63", "\\u0c81",
      "\\u0cbc", "\\u0cbf", "\\u0cc6", "\\u0ccc", "\\u0ccd", "\\u0ce2",
      "\\u0ce3", "\\u0d00", "\\u0d01", "\\u0d3b", "\\u0d3c", "\\u0d41",
      "\\u0d42", "\\u0d43", "\\u0d44", "\\u0d4d", "\\u0d62", "\\u0d63",
      "\\u0d81", "\\u0dca", "\\u0dd2", "\\u0dd3", "\\u0dd4", "\\u0dd6",
      "\\u0e31", "\\u0e34", "\\u0e35", "\\u0e36", "\\u0e37", "\\u0e38",
      "\\u0e39", "\\u0e3a", "\\u0e46", "\\u0e47", "\\u0e48", "\\u0e49",
      "\\u0e4a", "\\u0e4b", "\\u0e4c", "\\u0e4d", "\\u0e4e", "\\u0eb1",
      "\\u0eb4", "\\u0eb5", "\\u0eb6", "\\u0eb7", "\\u0eb8", "\\u0eb9",
      "\\u0eba", "\\u0ebb", "\\u0ebc", "\\u0ec6", "\\u0ec8", "\\u0ec9",
      "\\u0eca", "\\u0ecb", "\\u0ecc", "\\u0ecd", "\\u0f18", "\\u0f19",
      "\\u0f35", "\\u0f37", "\\u0f39", "\\u0f71", "\\u0f72", "\\u0f73",
      "\\u0f74", "\\u0f75", "\\u0f76", "\\u0f77", "\\u0f78", "\\u0f79",
      "\\u0f7a", "\\u0f7b", "\\u0f7c", "\\u0f7d", "\\u0f7e", "\\u0f80",
      "\\u0f81", "\\u0f82", "\\u0f83", "\\u0f84", "\\u0f86", "\\u0f87",
      "\\u0f8d", "\\u0f8e", "\\u0f8f", "\\u0f90", "\\u0f91", "\\u0f92",
      "\\u0f93", "\\u0f94", "\\u0f95", "\\u0f96", "\\u0f97", "\\u0f99",
      "\\u0f9a", "\\u0f9b", "\\u0f9c", "\\u0f9d", "\\u0f9e", "\\u0f9f",
      "\\u0fa0", "\\u0fa1", "\\u0fa2", "\\u0fa3", "\\u0fa4", "\\u0fa5",
      "\\u0fa6", "\\u0fa7", "\\u0fa8", "\\u0fa9", "\\u0faa", "\\u0fab",
      "\\u0fac", "\\u0fad", "\\u0fae", "\\u0faf", "\\u0fb0", "\\u0fb1",
      "\\u0fb2", "\\u0fb3", "\\u0fb4", "\\u0fb5", "\\u0fb6", "\\u0fb7",
      "\\u0fb8", "\\u0fb9", "\\u0fba", "\\u0fbb", "\\u0fbc", "\\u0fc6",
      "\\u102d", "\\u102e", "\\u102f", "\\u1030", "\\u1032", "\\u1033",
      "\\u1034", "\\u1035", "\\u1036", "\\u1037", "\\u1039", "\\u103a",
      "\\u103d", "\\u103e", "\\u1058", "\\u1059", "\\u105e", "\\u105f",
      "\\u1060", "\\u1071", "\\u1072", "\\u1073", "\\u1074", "\\u1082",
      "\\u1085", "\\u1086", "\\u108d", "\\u109d", "\\u10fc", "\\u135d",
      "\\u135e", "\\u135f", "\\u1712", "\\u1713", "\\u1714", "\\u1732",
      "\\u1733", "\\u1752", "\\u1753", "\\u1772", "\\u1773", "\\u17b4",
      "\\u17b5", "\\u17b7", "\\u17b8", "\\u17b9", "\\u17ba", "\\u17bb",
      "\\u17bc", "\\u17bd", "\\u17c6", "\\u17c9", "\\u17ca", "\\u17cb",
      "\\u17cc", "\\u17cd", "\\u17ce", "\\u17cf", "\\u17d0", "\\u17d1",
      "\\u17d2", "\\u17d3", "\\u17d7", "\\u17dd", "\\u180b", "\\u180c",
      "\\u180d", "\\u180e", "\\u180f", "\\u1843", "\\u1885", "\\u1886",
      "\\u18a9", "\\u1920", "\\u1921", "\\u1922", "\\u1927", "\\u1928",
      "\\u1932", "\\u1939", "\\u193a", "\\u193b", "\\u1a17", "\\u1a18",
      "\\u1a1b", "\\u1a56", "\\u1a58", "\\u1a59", "\\u1a5a", "\\u1a5b",
      "\\u1a5c", "\\u1a5d", "\\u1a5e", "\\u1a60", "\\u1a62", "\\u1a65",
      "\\u1a66", "\\u1a67", "\\u1a68", "\\u1a69", "\\u1a6a", "\\u1a6b",
      "\\u1a6c", "\\u1a73", "\\u1a74", "\\u1a75", "\\u1a76", "\\u1a77",
      "\\u1a78", "\\u1a79", "\\u1a7a", "\\u1a7b", "\\u1a7c", "\\u1a7f",
      "\\u1aa7", "\\u1ab0", "\\u1ab1", "\\u1ab2", "\\u1ab3", "\\u1ab4",
      "\\u1ab5", "\\u1ab6", "\\u1ab7", "\\u1ab8", "\\u1ab9", "\\u1aba",
      "\\u1abb", "\\u1abc", "\\u1abd", "\\u1abe", "\\u1abf", "\\u1ac0",
      "\\u1ac1", "\\u1ac2", "\\u1ac3", "\\u1ac4", "\\u1ac5", "\\u1ac6",
      "\\u1ac7", "\\u1ac8", "\\u1ac9", "\\u1aca", "\\u1acb", "\\u1acc",
      "\\u1acd", "\\u1ace", "\\u1b00", "\\u1b01", "\\u1b02", "\\u1b03",
      "\\u1b34", "\\u1b36", "\\u1b37", "\\u1b38", "\\u1b39", "\\u1b3a",
      "\\u1b3c", "\\u1b42", "\\u1b6b", "\\u1b6c", "\\u1b6d", "\\u1b6e",
      "\\u1b6f", "\\u1b70", "\\u1b71", "\\u1b72", "\\u1b73", "\\u1b80",
      "\\u1b81", "\\u1ba2", "\\u1ba3", "\\u1ba4", "\\u1ba5", "\\u1ba8",
      "\\u1ba9", "\\u1bab", "\\u1bac", "\\u1bad", "\\u1be6", "\\u1be8",
      "\\u1be9", "\\u1bed", "\\u1bef", "\\u1bf0", "\\u1bf1", "\\u1c2c",
      "\\u1c2d", "\\u1c2e", "\\u1c2f", "\\u1c30", "\\u1c31", "\\u1c32",
      "\\u1c33", "\\u1c36", "\\u1c37", "\\u1c78", "\\u1c79", "\\u1c7a",
      "\\u1c7b", "\\u1c7c", "\\u1c7d", "\\u1cd0", "\\u1cd1", "\\u1cd2",
      "\\u1cd4", "\\u1cd5", "\\u1cd6", "\\u1cd7", "\\u1cd8", "\\u1cd9",
      "\\u1cda", "\\u1cdb", "\\u1cdc", "\\u1cdd", "\\u1cde", "\\u1cdf",
      "\\u1ce0", "\\u1ce2", "\\u1ce3", "\\u1ce4", "\\u1ce5", "\\u1ce6",
      "\\u1ce7", "\\u1ce8", "\\u1ced", "\\u1cf4", "\\u1cf8", "\\u1cf9",
      "\\u1d2c", "\\u1d2d", "\\u1d2e", "\\u1d2f", "\\u1d30", "\\u1d31",
      "\\u1d32", "\\u1d33", "\\u1d34", "\\u1d35", "\\u1d36", "\\u1d37",
      "\\u1d38", "\\u1d39", "\\u1d3a", "\\u1d3b", "\\u1d3c", "\\u1d3d",
      "\\u1d3e", "\\u1d3f", "\\u1d40", "\\u1d41", "\\u1d42", "\\u1d43",
      "\\u1d44", "\\u1d45", "\\u1d46", "\\u1d47", "\\u1d48", "\\u1d49",
      "\\u1d4a", "\\u1d4b", "\\u1d4c", "\\u1d4d", "\\u1d4e", "\\u1d4f",
      "\\u1d50", "\\u1d51", "\\u1d52", "\\u1d53", "\\u1d54", "\\u1d55",
      "\\u1d56", "\\u1d57", "\\u1d58", "\\u1d59", "\\u1d5a", "\\u1d5b",
      "\\u1d5c", "\\u1d5d", "\\u1d5e", "\\u1d5f", "\\u1d60", "\\u1d61",
      "\\u1d62", "\\u1d63", "\\u1d64", "\\u1d65", "\\u1d66", "\\u1d67",
      "\\u1d68", "\\u1d69", "\\u1d6a", "\\u1d78", "\\u1d9b", "\\u1d9c",
      "\\u1d9d", "\\u1d9e", "\\u1d9f", "\\u1da0", "\\u1da1", "\\u1da2",
      "\\u1da3", "\\u1da4", "\\u1da5", "\\u1da6", "\\u1da7", "\\u1da8",
      "\\u1da9", "\\u1daa", "\\u1dab", "\\u1dac", "\\u1dad", "\\u1dae",
      "\\u1daf", "\\u1db0", "\\u1db1", "\\u1db2", "\\u1db3", "\\u1db4",
      "\\u1db5", "\\u1db6", "\\u1db7", "\\u1db8", "\\u1db9", "\\u1dba",
      "\\u1dbb", "\\u1dbc", "\\u1dbd", "\\u1dbe", "\\u1dbf", "\\u1dc0",
      "\\u1dc1", "\\u1dc2", "\\u1dc3", "\\u1dc4", "\\u1dc5", "\\u1dc6",
      "\\u1dc7", "\\u1dc8", "\\u1dc9", "\\u1dca", "\\u1dcb", "\\u1dcc",
      "\\u1dcd", "\\u1dce", "\\u1dcf", "\\u1dd0", "\\u1dd1", "\\u1dd2",
      "\\u1dd3", "\\u1dd4", "\\u1dd5", "\\u1dd6", "\\u1dd7", "\\u1dd8",
      "\\u1dd9", "\\u1dda", "\\u1ddb", "\\u1ddc", "\\u1ddd", "\\u1dde",
      "\\u1ddf", "\\u1de0", "\\u1de1", "\\u1de2", "\\u1de3", "\\u1de4",
      "\\u1de5", "\\u1de6", "\\u1de7", "\\u1de8", "\\u1de9", "\\u1dea",
      "\\u1deb", "\\u1dec", "\\u1ded", "\\u1dee", "\\u1def", "\\u1df0",
      "\\u1df1", "\\u1df2", "\\u1df3", "\\u1df4", "\\u1df5", "\\u1df6",
      "\\u1df7", "\\u1df8", "\\u1df9", "\\u1dfa", "\\u1dfb", "\\u1dfc",
      "\\u1dfd", "\\u1dfe", "\\u1dff", "\\u1fbd", "\\u1fbf", "\\u1fc0",
      "\\u1fc1", "\\u1fcd", "\\u1fce", "\\u1fcf", "\\u1fdd", "\\u1fde",
      "\\u1fdf", "\\u1fed", "\\u1fee", "\\u1fef", "\\u1ffd", "\\u1ffe",
      "\\u200b", "\\u200c", "\\u200d", "\\u200e", "\\u200f", "\\u2018",
      "\\u2019", "\\u2024", "\\u2027", "\\u202a", "\\u202b", "\\u202c",
      "\\u202d", "\\u202e", "\\u2060", "\\u2061", "\\u2062", "\\u2063",
      "\\u2064", "\\u2066", "\\u2067", "\\u2068", "\\u2069", "\\u206a",
      "\\u206b", "\\u206c", "\\u206d", "\\u206e", "\\u206f", "\\u2071",
      "\\u207f", "\\u2090", "\\u2091", "\\u2092", "\\u2093", "\\u2094",
      "\\u2095", "\\u2096", "\\u2097", "\\u2098", "\\u2099", "\\u209a",
      "\\u209b", "\\u209c", "\\u20d0", "\\u20d1", "\\u20d2", "\\u20d3",
      "\\u20d4", "\\u20d5", "\\u20d6", "\\u20d7", "\\u20d8", "\\u20d9",
      "\\u20da", "\\u20db", "\\u20dc", "\\u20dd", "\\u20de", "\\u20df",
      "\\u20e0", "\\u20e1", "\\u20e2", "\\u20e3", "\\u20e4", "\\u20e5",
      "\\u20e6", "\\u20e7", "\\u20e8", "\\u20e9", "\\u20ea", "\\u20eb",
      "\\u20ec", "\\u20ed", "\\u20ee", "\\u20ef", "\\u20f0", "\\u2c7c",
      "\\u2c7d", "\\u2cef", "\\u2cf0", "\\u2cf1", "\\u2d6f", "\\u2d7f",
      "\\u2de0", "\\u2de1", "\\u2de2", "\\u2de3", "\\u2de4", "\\u2de5",
      "\\u2de6", "\\u2de7", "\\u2de8", "\\u2de9", "\\u2dea", "\\u2deb",
      "\\u2dec", "\\u2ded", "\\u2dee", "\\u2def", "\\u2df0", "\\u2df1",
      "\\u2df2", "\\u2df3", "\\u2df4", "\\u2df5", "\\u2df6", "\\u2df7",
      "\\u2df8", "\\u2df9", "\\u2dfa", "\\u2dfb", "\\u2dfc", "\\u2dfd",
      "\\u2dfe", "\\u2dff", "\\u2e2f", "\\u3005", "\\u302a", "\\u302b",
      "\\u302c", "\\u302d", "\\u3031", "\\u3032", "\\u3033", "\\u3034",
      "\\u3035", "\\u303b", "\\u3099", "\\u309a", "\\u309b", "\\u309c",
      "\\u309d", "\\u309e", "\\u30fc", "\\u30fd", "\\u30fe", "\\ua015",
      "\\ua4f8", "\\ua4f9", "\\ua4fa", "\\ua4fb", "\\ua4fc", "\\ua4fd",
      "\\ua60c", "\\ua66f", "\\ua670", "\\ua671", "\\ua672", "\\ua674",
      "\\ua675", "\\ua676", "\\ua677", "\\ua678", "\\ua679", "\\ua67a",
      "\\ua67b", "\\ua67c", "\\ua67d", "\\ua67f", "\\ua69c", "\\ua69d",
      "\\ua69e", "\\ua69f", "\\ua6f0", "\\ua6f1", "\\ua700", "\\ua701",
      "\\ua702", "\\ua703", "\\ua704", "\\ua705", "\\ua706", "\\ua707",
      "\\ua708", "\\ua709", "\\ua70a", "\\ua70b", "\\ua70c", "\\ua70d",
      "\\ua70e", "\\ua70f", "\\ua710", "\\ua711", "\\ua712", "\\ua713",
      "\\ua714", "\\ua715", "\\ua716", "\\ua717", "\\ua718", "\\ua719",
      "\\ua71a", "\\ua71b", "\\ua71c", "\\ua71d", "\\ua71e", "\\ua71f",
      "\\ua720", "\\ua721", "\\ua770", "\\ua788", "\\ua789", "\\ua78a",
      "\\ua7f2", "\\ua7f3", "\\ua7f4", "\\ua7f8", "\\ua7f9", "\\ua802",
      "\\ua806", "\\ua80b", "\\ua825", "\\ua826", "\\ua82c", "\\ua8c4",
      "\\ua8c5", "\\ua8e0", "\\ua8e1", "\\ua8e2", "\\ua8e3", "\\ua8e4",
      "\\ua8e5", "\\ua8e6", "\\ua8e7", "\\ua8e8", "\\ua8e9", "\\ua8ea",
      "\\ua8eb", "\\ua8ec", "\\ua8ed", "\\ua8ee", "\\ua8ef", "\\ua8f0",
      "\\ua8f1", "\\ua8ff", "\\ua926", "\\ua927", "\\ua928", "\\ua929",
      "\\ua92a", "\\ua92b", "\\ua92c", "\\ua92d", "\\ua947", "\\ua948",
      "\\ua949", "\\ua94a", "\\ua94b", "\\ua94c", "\\ua94d", "\\ua94e",
      "\\ua94f", "\\ua950", "\\ua951", "\\ua980", "\\ua981", "\\ua982",
      "\\ua9b3", "\\ua9b6", "\\ua9b7", "\\ua9b8", "\\ua9b9", "\\ua9bc",
      "\\ua9bd", "\\ua9cf", "\\ua9e5", "\\ua9e6", "\\uaa29", "\\uaa2a",
      "\\uaa2b", "\\uaa2c", "\\uaa2d", "\\uaa2e", "\\uaa31", "\\uaa32",
      "\\uaa35", "\\uaa36", "\\uaa43", "\\uaa4c", "\\uaa70", "\\uaa7c",
      "\\uaab0", "\\uaab2", "\\uaab3", "\\uaab4", "\\uaab7", "\\uaab8",
      "\\uaabe", "\\uaabf", "\\uaac1", "\\uaadd", "\\uaaec", "\\uaaed",
      "\\uaaf3", "\\uaaf4", "\\uaaf6", "\\uab5b", "\\uab5c", "\\uab5d",
      "\\uab5e", "\\uab5f", "\\uab69", "\\uab6a", "\\uab6b", "\\uabe5",
      "\\uabe8", "\\uabed", "\\ufb1e", "\\ufbb2", "\\ufbb3", "\\ufbb4",
      "\\ufbb5", "\\ufbb6", "\\ufbb7", "\\ufbb8", "\\ufbb9", "\\ufbba",
      "\\ufbbb", "\\ufbbc", "\\ufbbd", "\\ufbbe", "\\ufbbf", "\\ufbc0",
      "\\ufbc1", "\\ufbc2", "\\ufe00", "\\ufe01", "\\ufe02", "\\ufe03",
      "\\ufe04", "\\ufe05", "\\ufe06", "\\ufe07", "\\ufe08", "\\ufe09",
      "\\ufe0a", "\\ufe0b", "\\ufe0c", "\\ufe0d", "\\ufe0e", "\\ufe0f",
      "\\ufe13", "\\ufe20", "\\ufe21", "\\ufe22", "\\ufe23", "\\ufe24",
      "\\ufe25", "\\ufe26", "\\ufe27", "\\ufe28", "\\ufe29", "\\ufe2a",
      "\\ufe2b", "\\ufe2c", "\\ufe2d", "\\ufe2e", "\\ufe2f", "\\ufe52",
      "\\ufe55", "\\ufeff", "\\uff07", "\\uff0e", "\\uff1a", "\\uff3e",
      "\\uff40", "\\uff70", "\\uff9e", "\\uff9f", "\\uffe3", "\\ufff9",
      "\\ufffa", "\\ufffb", "\\ud800\\uddfd", "\\ud800\\udee0",
      "\\ud800\\udf76", "\\ud800\\udf77", "\\ud800\\udf78", "\\ud800\\udf79",
      "\\ud800\\udf7a", "\\ud801\\udf80", "\\ud801\\udf81", "\\ud801\\udf82",
      "\\ud801\\udf83", "\\ud801\\udf84", "\\ud801\\udf85", "\\ud801\\udf87",
      "\\ud801\\udf88", "\\ud801\\udf89", "\\ud801\\udf8a", "\\ud801\\udf8b",
      "\\ud801\\udf8c", "\\ud801\\udf8d", "\\ud801\\udf8e", "\\ud801\\udf8f",
      "\\ud801\\udf90", "\\ud801\\udf91", "\\ud801\\udf92", "\\ud801\\udf93",
      "\\ud801\\udf94", "\\ud801\\udf95", "\\ud801\\udf96", "\\ud801\\udf97",
      "\\ud801\\udf98", "\\ud801\\udf99", "\\ud801\\udf9a", "\\ud801\\udf9b",
      "\\ud801\\udf9c", "\\ud801\\udf9d", "\\ud801\\udf9e", "\\ud801\\udf9f",
      "\\ud801\\udfa0", "\\ud801\\udfa1", "\\ud801\\udfa2", "\\ud801\\udfa3",
      "\\ud801\\udfa4", "\\ud801\\udfa5", "\\ud801\\udfa6", "\\ud801\\udfa7",
      "\\ud801\\udfa8", "\\ud801\\udfa9", "\\ud801\\udfaa", "\\ud801\\udfab",
      "\\ud801\\udfac", "\\ud801\\udfad", "\\ud801\\udfae", "\\ud801\\udfaf",
      "\\ud801\\udfb0", "\\ud801\\udfb2", "\\ud801\\udfb3", "\\ud801\\udfb4",
      "\\ud801\\udfb5", "\\ud801\\udfb6", "\\ud801\\udfb7", "\\ud801\\udfb8",
      "\\ud801\\udfb9", "\\ud801\\udfba", "\\ud802\\ude01", "\\ud802\\ude02",
      "\\ud802\\ude03", "\\ud802\\ude05", "\\ud802\\ude06", "\\ud802\\ude0c",
      "\\ud802\\ude0d", "\\ud802\\ude0e", "\\ud802\\ude0f", "\\ud802\\ude38",
      "\\ud802\\ude39", "\\ud802\\ude3a", "\\ud802\\ude3f", "\\ud802\\udee5",
      "\\ud802\\udee6", "\\ud803\\udd24", "\\ud803\\udd25", "\\ud803\\udd26",
      "\\ud803\\udd27", "\\ud803\\udeab", "\\ud803\\udeac", "\\ud803\\udf46",
      "\\ud803\\udf47", "\\ud803\\udf48", "\\ud803\\udf49", "\\ud803\\udf4a",
      "\\ud803\\udf4b", "\\ud803\\udf4c", "\\ud803\\udf4d", "\\ud803\\udf4e",
      "\\ud803\\udf4f", "\\ud803\\udf50", "\\ud803\\udf82", "\\ud803\\udf83",
      "\\ud803\\udf84", "\\ud803\\udf85", "\\ud804\\udc01", "\\ud804\\udc38",
      "\\ud804\\udc39", "\\ud804\\udc3a", "\\ud804\\udc3b", "\\ud804\\udc3c",
      "\\ud804\\udc3d", "\\ud804\\udc3e", "\\ud804\\udc3f", "\\ud804\\udc40",
      "\\ud804\\udc41", "\\ud804\\udc42", "\\ud804\\udc43", "\\ud804\\udc44",
      "\\ud804\\udc45", "\\ud804\\udc46", "\\ud804\\udc70", "\\ud804\\udc73",
      "\\ud804\\udc74", "\\ud804\\udc7f", "\\ud804\\udc80", "\\ud804\\udc81",
      "\\ud804\\udcb3", "\\ud804\\udcb4", "\\ud804\\udcb5", "\\ud804\\udcb6",
      "\\ud804\\udcb9", "\\ud804\\udcba", "\\ud804\\udcbd", "\\ud804\\udcc2",
      "\\ud804\\udccd", "\\ud804\\udd00", "\\ud804\\udd01", "\\ud804\\udd02",
      "\\ud804\\udd27", "\\ud804\\udd28", "\\ud804\\udd29", "\\ud804\\udd2a",
      "\\ud804\\udd2b", "\\ud804\\udd2d", "\\ud804\\udd2e", "\\ud804\\udd2f",
      "\\ud804\\udd30", "\\ud804\\udd31", "\\ud804\\udd32", "\\ud804\\udd33",
      "\\ud804\\udd34", "\\ud804\\udd73", "\\ud804\\udd80", "\\ud804\\udd81",
      "\\ud804\\uddb6", "\\ud804\\uddb7", "\\ud804\\uddb8", "\\ud804\\uddb9",
      "\\ud804\\uddba", "\\ud804\\uddbb", "\\ud804\\uddbc", "\\ud804\\uddbd",
      "\\ud804\\uddbe", "\\ud804\\uddc9", "\\ud804\\uddca", "\\ud804\\uddcb",
      "\\ud804\\uddcc", "\\ud804\\uddcf", "\\ud804\\ude2f", "\\ud804\\ude30",
      "\\ud804\\ude31", "\\ud804\\ude34", "\\ud804\\ude36", "\\ud804\\ude37",
      "\\ud804\\ude3e", "\\ud804\\udedf", "\\ud804\\udee3", "\\ud804\\udee4",
      "\\ud804\\udee5", "\\ud804\\udee6", "\\ud804\\udee7", "\\ud804\\udee8",
      "\\ud804\\udee9", "\\ud804\\udeea", "\\ud804\\udf00", "\\ud804\\udf01",
      "\\ud804\\udf3b", "\\ud804\\udf3c", "\\ud804\\udf40", "\\ud804\\udf66",
      "\\ud804\\udf67", "\\ud804\\udf68", "\\ud804\\udf69", "\\ud804\\udf6a",
      "\\ud804\\udf6b", "\\ud804\\udf6c", "\\ud804\\udf70", "\\ud804\\udf71",
      "\\ud804\\udf72", "\\ud804\\udf73", "\\ud804\\udf74", "\\ud805\\udc38",
      "\\ud805\\udc39", "\\ud805\\udc3a", "\\ud805\\udc3b", "\\ud805\\udc3c",
      "\\ud805\\udc3d", "\\ud805\\udc3e", "\\ud805\\udc3f", "\\ud805\\udc42",
      "\\ud805\\udc43", "\\ud805\\udc44", "\\ud805\\udc46", "\\ud805\\udc5e",
      "\\ud805\\udcb3", "\\ud805\\udcb4", "\\ud805\\udcb5", "\\ud805\\udcb6",
      "\\ud805\\udcb7", "\\ud805\\udcb8", "\\ud805\\udcba", "\\ud805\\udcbf",
      "\\ud805\\udcc0", "\\ud805\\udcc2", "\\ud805\\udcc3", "\\ud805\\uddb2",
      "\\ud805\\uddb3", "\\ud805\\uddb4", "\\ud805\\uddb5", "\\ud805\\uddbc",
      "\\ud805\\uddbd", "\\ud805\\uddbf", "\\ud805\\uddc0", "\\ud805\\udddc",
      "\\ud805\\udddd", "\\ud805\\ude33", "\\ud805\\ude34", "\\ud805\\ude35",
      "\\ud805\\ude36", "\\ud805\\ude37", "\\ud805\\ude38", "\\ud805\\ude39",
      "\\ud805\\ude3a", "\\ud805\\ude3d", "\\ud805\\ude3f", "\\ud805\\ude40",
      "\\ud805\\udeab", "\\ud805\\udead", "\\ud805\\udeb0", "\\ud805\\udeb1",
      "\\ud805\\udeb2", "\\ud805\\udeb3", "\\ud805\\udeb4", "\\ud805\\udeb5",
      "\\ud805\\udeb7", "\\ud805\\udf1d", "\\ud805\\udf1e", "\\ud805\\udf1f",
      "\\ud805\\udf22", "\\ud805\\udf23", "\\ud805\\udf24", "\\ud805\\udf25",
      "\\ud805\\udf27", "\\ud805\\udf28", "\\ud805\\udf29", "\\ud805\\udf2a",
      "\\ud805\\udf2b", "\\ud806\\udc2f", "\\ud806\\udc30", "\\ud806\\udc31",
      "\\ud806\\udc32", "\\ud806\\udc33", "\\ud806\\udc34", "\\ud806\\udc35",
      "\\ud806\\udc36", "\\ud806\\udc37", "\\ud806\\udc39", "\\ud806\\udc3a",
      "\\ud806\\udd3b", "\\ud806\\udd3c", "\\ud806\\udd3e", "\\ud806\\udd43",
      "\\ud806\\uddd4", "\\ud806\\uddd5", "\\ud806\\uddd6", "\\ud806\\uddd7",
      "\\ud806\\uddda", "\\ud806\\udddb", "\\ud806\\udde0", "\\ud806\\ude01",
      "\\ud806\\ude02", "\\ud806\\ude03", "\\ud806\\ude04", "\\ud806\\ude05",
      "\\ud806\\ude06", "\\ud806\\ude07", "\\ud806\\ude08", "\\ud806\\ude09",
      "\\ud806\\ude0a", "\\ud806\\ude33", "\\ud806\\ude34", "\\ud806\\ude35",
      "\\ud806\\ude36", "\\ud806\\ude37", "\\ud806\\ude38", "\\ud806\\ude3b",
      "\\ud806\\ude3c", "\\ud806\\ude3d", "\\ud806\\ude3e", "\\ud806\\ude47",
      "\\ud806\\ude51", "\\ud806\\ude52", "\\ud806\\ude53", "\\ud806\\ude54",
      "\\ud806\\ude55", "\\ud806\\ude56", "\\ud806\\ude59", "\\ud806\\ude5a",
      "\\ud806\\ude5b", "\\ud806\\ude8a", "\\ud806\\ude8b", "\\ud806\\ude8c",
      "\\ud806\\ude8d", "\\ud806\\ude8e", "\\ud806\\ude8f", "\\ud806\\ude90",
      "\\ud806\\ude91", "\\ud806\\ude92", "\\ud806\\ude93", "\\ud806\\ude94",
      "\\ud806\\ude95", "\\ud806\\ude96", "\\ud806\\ude98", "\\ud806\\ude99",
      "\\ud807\\udc30", "\\ud807\\udc31", "\\ud807\\udc32", "\\ud807\\udc33",
      "\\ud807\\udc34", "\\ud807\\udc35", "\\ud807\\udc36", "\\ud807\\udc38",
      "\\ud807\\udc39", "\\ud807\\udc3a", "\\ud807\\udc3b", "\\ud807\\udc3c",
      "\\ud807\\udc3d", "\\ud807\\udc3f", "\\ud807\\udc92", "\\ud807\\udc93",
      "\\ud807\\udc94", "\\ud807\\udc95", "\\ud807\\udc96", "\\ud807\\udc97",
      "\\ud807\\udc98", "\\ud807\\udc99", "\\ud807\\udc9a", "\\ud807\\udc9b",
      "\\ud807\\udc9c", "\\ud807\\udc9d", "\\ud807\\udc9e", "\\ud807\\udc9f",
      "\\ud807\\udca0", "\\ud807\\udca1", "\\ud807\\udca2", "\\ud807\\udca3",
      "\\ud807\\udca4", "\\ud807\\udca5", "\\ud807\\udca6", "\\ud807\\udca7",
      "\\ud807\\udcaa", "\\ud807\\udcab", "\\ud807\\udcac", "\\ud807\\udcad",
      "\\ud807\\udcae", "\\ud807\\udcaf", "\\ud807\\udcb0", "\\ud807\\udcb2",
      "\\ud807\\udcb3", "\\ud807\\udcb5", "\\ud807\\udcb6", "\\ud807\\udd31",
      "\\ud807\\udd32", "\\ud807\\udd33", "\\ud807\\udd34", "\\ud807\\udd35",
      "\\ud807\\udd36", "\\ud807\\udd3a", "\\ud807\\udd3c", "\\ud807\\udd3d",
      "\\ud807\\udd3f", "\\ud807\\udd40", "\\ud807\\udd41", "\\ud807\\udd42",
      "\\ud807\\udd43", "\\ud807\\udd44", "\\ud807\\udd45", "\\ud807\\udd47",
      "\\ud807\\udd90", "\\ud807\\udd91", "\\ud807\\udd95", "\\ud807\\udd97",
      "\\ud807\\udef3", "\\ud807\\udef4", "\\ud80d\\udc30", "\\ud80d\\udc31",
      "\\ud80d\\udc32", "\\ud80d\\udc33", "\\ud80d\\udc34", "\\ud80d\\udc35",
      "\\ud80d\\udc36", "\\ud80d\\udc37", "\\ud80d\\udc38", "\\ud81a\\udef0",
      "\\ud81a\\udef1", "\\ud81a\\udef2", "\\ud81a\\udef3", "\\ud81a\\udef4",
      "\\ud81a\\udf30", "\\ud81a\\udf31", "\\ud81a\\udf32", "\\ud81a\\udf33",
      "\\ud81a\\udf34", "\\ud81a\\udf35", "\\ud81a\\udf36", "\\ud81a\\udf40",
      "\\ud81a\\udf41", "\\ud81a\\udf42", "\\ud81a\\udf43", "\\ud81b\\udf4f",
      "\\ud81b\\udf8f", "\\ud81b\\udf90", "\\ud81b\\udf91", "\\ud81b\\udf92",
      "\\ud81b\\udf93", "\\ud81b\\udf94", "\\ud81b\\udf95", "\\ud81b\\udf96",
      "\\ud81b\\udf97", "\\ud81b\\udf98", "\\ud81b\\udf99", "\\ud81b\\udf9a",
      "\\ud81b\\udf9b", "\\ud81b\\udf9c", "\\ud81b\\udf9d", "\\ud81b\\udf9e",
      "\\ud81b\\udf9f", "\\ud81b\\udfe0", "\\ud81b\\udfe1", "\\ud81b\\udfe3",
      "\\ud81b\\udfe4", "\\ud82b\\udff0", "\\ud82b\\udff1", "\\ud82b\\udff2",
      "\\ud82b\\udff3", "\\ud82b\\udff5", "\\ud82b\\udff6", "\\ud82b\\udff7",
      "\\ud82b\\udff8", "\\ud82b\\udff9", "\\ud82b\\udffa", "\\ud82b\\udffb",
      "\\ud82b\\udffd", "\\ud82b\\udffe", "\\ud82f\\udc9d", "\\ud82f\\udc9e",
      "\\ud82f\\udca0", "\\ud82f\\udca1", "\\ud82f\\udca2", "\\ud82f\\udca3",
      "\\ud833\\udf00", "\\ud833\\udf01", "\\ud833\\udf02", "\\ud833\\udf03",
      "\\ud833\\udf04", "\\ud833\\udf05", "\\ud833\\udf06", "\\ud833\\udf07",
      "\\ud833\\udf08", "\\ud833\\udf09", "\\ud833\\udf0a", "\\ud833\\udf0b",
      "\\ud833\\udf0c", "\\ud833\\udf0d", "\\ud833\\udf0e", "\\ud833\\udf0f",
      "\\ud833\\udf10", "\\ud833\\udf11", "\\ud833\\udf12", "\\ud833\\udf13",
      "\\ud833\\udf14", "\\ud833\\udf15", "\\ud833\\udf16", "\\ud833\\udf17",
      "\\ud833\\udf18", "\\ud833\\udf19", "\\ud833\\udf1a", "\\ud833\\udf1b",
      "\\ud833\\udf1c", "\\ud833\\udf1d", "\\ud833\\udf1e", "\\ud833\\udf1f",
      "\\ud833\\udf20", "\\ud833\\udf21", "\\ud833\\udf22", "\\ud833\\udf23",
      "\\ud833\\udf24", "\\ud833\\udf25", "\\ud833\\udf26", "\\ud833\\udf27",
      "\\ud833\\udf28", "\\ud833\\udf29", "\\ud833\\udf2a", "\\ud833\\udf2b",
      "\\ud833\\udf2c", "\\ud833\\udf2d", "\\ud833\\udf30", "\\ud833\\udf31",
      "\\ud833\\udf32", "\\ud833\\udf33", "\\ud833\\udf34", "\\ud833\\udf35",
      "\\ud833\\udf36", "\\ud833\\udf37", "\\ud833\\udf38", "\\ud833\\udf39",
      "\\ud833\\udf3a", "\\ud833\\udf3b", "\\ud833\\udf3c", "\\ud833\\udf3d",
      "\\ud833\\udf3e", "\\ud833\\udf3f", "\\ud833\\udf40", "\\ud833\\udf41",
      "\\ud833\\udf42", "\\ud833\\udf43", "\\ud833\\udf44", "\\ud833\\udf45",
      "\\ud833\\udf46", "\\ud834\\udd67", "\\ud834\\udd68", "\\ud834\\udd69",
      "\\ud834\\udd73", "\\ud834\\udd74", "\\ud834\\udd75", "\\ud834\\udd76",
      "\\ud834\\udd77", "\\ud834\\udd78", "\\ud834\\udd79", "\\ud834\\udd7a",
      "\\ud834\\udd7b", "\\ud834\\udd7c", "\\ud834\\udd7d", "\\ud834\\udd7e",
      "\\ud834\\udd7f", "\\ud834\\udd80", "\\ud834\\udd81", "\\ud834\\udd82",
      "\\ud834\\udd85", "\\ud834\\udd86", "\\ud834\\udd87", "\\ud834\\udd88",
      "\\ud834\\udd89", "\\ud834\\udd8a", "\\ud834\\udd8b", "\\ud834\\uddaa",
      "\\ud834\\uddab", "\\ud834\\uddac", "\\ud834\\uddad", "\\ud834\\ude42",
      "\\ud834\\ude43", "\\ud834\\ude44", "\\ud836\\ude00", "\\ud836\\ude01",
      "\\ud836\\ude02", "\\ud836\\ude03", "\\ud836\\ude04", "\\ud836\\ude05",
      "\\ud836\\ude06", "\\ud836\\ude07", "\\ud836\\ude08", "\\ud836\\ude09",
      "\\ud836\\ude0a", "\\ud836\\ude0b", "\\ud836\\ude0c", "\\ud836\\ude0d",
      "\\ud836\\ude0e", "\\ud836\\ude0f", "\\ud836\\ude10", "\\ud836\\ude11",
      "\\ud836\\ude12", "\\ud836\\ude13", "\\ud836\\ude14", "\\ud836\\ude15",
      "\\ud836\\ude16", "\\ud836\\ude17", "\\ud836\\ude18", "\\ud836\\ude19",
      "\\ud836\\ude1a", "\\ud836\\ude1b", "\\ud836\\ude1c", "\\ud836\\ude1d",
      "\\ud836\\ude1e", "\\ud836\\ude1f", "\\ud836\\ude20", "\\ud836\\ude21",
      "\\ud836\\ude22", "\\ud836\\ude23", "\\ud836\\ude24", "\\ud836\\ude25",
      "\\ud836\\ude26", "\\ud836\\ude27", "\\ud836\\ude28", "\\ud836\\ude29",
      "\\ud836\\ude2a", "\\ud836\\ude2b", "\\ud836\\ude2c", "\\ud836\\ude2d",
      "\\ud836\\ude2e", "\\ud836\\ude2f", "\\ud836\\ude30", "\\ud836\\ude31",
      "\\ud836\\ude32", "\\ud836\\ude33", "\\ud836\\ude34", "\\ud836\\ude35",
      "\\ud836\\ude36", "\\ud836\\ude3b", "\\ud836\\ude3c", "\\ud836\\ude3d",
      "\\ud836\\ude3e", "\\ud836\\ude3f", "\\ud836\\ude40", "\\ud836\\ude41",
      "\\ud836\\ude42", "\\ud836\\ude43", "\\ud836\\ude44", "\\ud836\\ude45",
      "\\ud836\\ude46", "\\ud836\\ude47", "\\ud836\\ude48", "\\ud836\\ude49",
      "\\ud836\\ude4a", "\\ud836\\ude4b", "\\ud836\\ude4c", "\\ud836\\ude4d",
      "\\ud836\\ude4e", "\\ud836\\ude4f", "\\ud836\\ude50", "\\ud836\\ude51",
      "\\ud836\\ude52", "\\ud836\\ude53", "\\ud836\\ude54", "\\ud836\\ude55",
      "\\ud836\\ude56", "\\ud836\\ude57", "\\ud836\\ude58", "\\ud836\\ude59",
      "\\ud836\\ude5a", "\\ud836\\ude5b", "\\ud836\\ude5c", "\\ud836\\ude5d",
      "\\ud836\\ude5e", "\\ud836\\ude5f", "\\ud836\\ude60", "\\ud836\\ude61",
      "\\ud836\\ude62", "\\ud836\\ude63", "\\ud836\\ude64", "\\ud836\\ude65",
      "\\ud836\\ude66", "\\ud836\\ude67", "\\ud836\\ude68", "\\ud836\\ude69",
      "\\ud836\\ude6a", "\\ud836\\ude6b", "\\ud836\\ude6c", "\\ud836\\ude75",
      "\\ud836\\ude84", "\\ud836\\ude9b", "\\ud836\\ude9c", "\\ud836\\ude9d",
      "\\ud836\\ude9e", "\\ud836\\ude9f", "\\ud836\\udea1", "\\ud836\\udea2",
      "\\ud836\\udea3", "\\ud836\\udea4", "\\ud836\\udea5", "\\ud836\\udea6",
      "\\ud836\\udea7", "\\ud836\\udea8", "\\ud836\\udea9", "\\ud836\\udeaa",
      "\\ud836\\udeab", "\\ud836\\udeac", "\\ud836\\udead", "\\ud836\\udeae",
      "\\ud836\\udeaf", "\\ud838\\udc00", "\\ud838\\udc01", "\\ud838\\udc02",
      "\\ud838\\udc03", "\\ud838\\udc04", "\\ud838\\udc05", "\\ud838\\udc06",
      "\\ud838\\udc08", "\\ud838\\udc09", "\\ud838\\udc0a", "\\ud838\\udc0b",
      "\\ud838\\udc0c", "\\ud838\\udc0d", "\\ud838\\udc0e", "\\ud838\\udc0f",
      "\\ud838\\udc10", "\\ud838\\udc11", "\\ud838\\udc12", "\\ud838\\udc13",
      "\\ud838\\udc14", "\\ud838\\udc15", "\\ud838\\udc16", "\\ud838\\udc17",
      "\\ud838\\udc18", "\\ud838\\udc1b", "\\ud838\\udc1c", "\\ud838\\udc1d",
      "\\ud838\\udc1e", "\\ud838\\udc1f", "\\ud838\\udc20", "\\ud838\\udc21",
      "\\ud838\\udc23", "\\ud838\\udc24", "\\ud838\\udc26", "\\ud838\\udc27",
      "\\ud838\\udc28", "\\ud838\\udc29", "\\ud838\\udc2a", "\\ud838\\udd30",
      "\\ud838\\udd31", "\\ud838\\udd32", "\\ud838\\udd33", "\\ud838\\udd34",
      "\\ud838\\udd35", "\\ud838\\udd36", "\\ud838\\udd37", "\\ud838\\udd38",
      "\\ud838\\udd39", "\\ud838\\udd3a", "\\ud838\\udd3b", "\\ud838\\udd3c",
      "\\ud838\\udd3d", "\\ud838\\udeae", "\\ud838\\udeec", "\\ud838\\udeed",
      "\\ud838\\udeee", "\\ud838\\udeef", "\\ud83a\\udcd0", "\\ud83a\\udcd1",
      "\\ud83a\\udcd2", "\\ud83a\\udcd3", "\\ud83a\\udcd4", "\\ud83a\\udcd5",
      "\\ud83a\\udcd6", "\\ud83a\\udd44", "\\ud83a\\udd45", "\\ud83a\\udd46",
      "\\ud83a\\udd47", "\\ud83a\\udd48", "\\ud83a\\udd49", "\\ud83a\\udd4a",
      "\\ud83a\\udd4b", "\\ud83c\\udffb", "\\ud83c\\udffc", "\\ud83c\\udffd",
      "\\ud83c\\udffe", "\\ud83c\\udfff", "\\udb40\\udc01", "\\udb40\\udc20",
      "\\udb40\\udc21", "\\udb40\\udc22", "\\udb40\\udc23", "\\udb40\\udc24",
      "\\udb40\\udc25", "\\udb40\\udc26", "\\udb40\\udc27", "\\udb40\\udc28",
      "\\udb40\\udc29", "\\udb40\\udc2a", "\\udb40\\udc2b", "\\udb40\\udc2c",
      "\\udb40\\udc2d", "\\udb40\\udc2e", "\\udb40\\udc2f", "\\udb40\\udc30",
      "\\udb40\\udc31", "\\udb40\\udc32", "\\udb40\\udc33", "\\udb40\\udc34",
      "\\udb40\\udc35", "\\udb40\\udc36", "\\udb40\\udc37", "\\udb40\\udc38",
      "\\udb40\\udc39", "\\udb40\\udc3a", "\\udb40\\udc3b", "\\udb40\\udc3c",
      "\\udb40\\udc3d", "\\udb40\\udc3e", "\\udb40\\udc3f", "\\udb40\\udc40",
      "\\udb40\\udc41", "\\udb40\\udc42", "\\udb40\\udc43", "\\udb40\\udc44",
      "\\udb40\\udc45", "\\udb40\\udc46", "\\udb40\\udc47", "\\udb40\\udc48",
      "\\udb40\\udc49", "\\udb40\\udc4a", "\\udb40\\udc4b", "\\udb40\\udc4c",
      "\\udb40\\udc4d", "\\udb40\\udc4e", "\\udb40\\udc4f", "\\udb40\\udc50",
      "\\udb40\\udc51", "\\udb40\\udc52", "\\udb40\\udc53", "\\udb40\\udc54",
      "\\udb40\\udc55", "\\udb40\\udc56", "\\udb40\\udc57", "\\udb40\\udc58",
      "\\udb40\\udc59", "\\udb40\\udc5a", "\\udb40\\udc5b", "\\udb40\\udc5c",
      "\\udb40\\udc5d", "\\udb40\\udc5e", "\\udb40\\udc5f", "\\udb40\\udc60",
      "\\udb40\\udc61", "\\udb40\\udc62", "\\udb40\\udc63", "\\udb40\\udc64",
      "\\udb40\\udc65", "\\udb40\\udc66", "\\udb40\\udc67", "\\udb40\\udc68",
      "\\udb40\\udc69", "\\udb40\\udc6a", "\\udb40\\udc6b", "\\udb40\\udc6c",
      "\\udb40\\udc6d", "\\udb40\\udc6e", "\\udb40\\udc6f", "\\udb40\\udc70",
      "\\udb40\\udc71", "\\udb40\\udc72", "\\udb40\\udc73", "\\udb40\\udc74",
      "\\udb40\\udc75", "\\udb40\\udc76", "\\udb40\\udc77", "\\udb40\\udc78",
      "\\udb40\\udc79", "\\udb40\\udc7a", "\\udb40\\udc7b", "\\udb40\\udc7c",
      "\\udb40\\udc7d", "\\udb40\\udc7e", "\\udb40\\udc7f", "\\udb40\\udd00",
      "\\udb40\\udd01", "\\udb40\\udd02", "\\udb40\\udd03", "\\udb40\\udd04",
      "\\udb40\\udd05", "\\udb40\\udd06", "\\udb40\\udd07", "\\udb40\\udd08",
      "\\udb40\\udd09", "\\udb40\\udd0a", "\\udb40\\udd0b", "\\udb40\\udd0c",
      "\\udb40\\udd0d", "\\udb40\\udd0e", "\\udb40\\udd0f", "\\udb40\\udd10",
      "\\udb40\\udd11", "\\udb40\\udd12", "\\udb40\\udd13", "\\udb40\\udd14",
      "\\udb40\\udd15", "\\udb40\\udd16", "\\udb40\\udd17", "\\udb40\\udd18",
      "\\udb40\\udd19", "\\udb40\\udd1a", "\\udb40\\udd1b", "\\udb40\\udd1c",
      "\\udb40\\udd1d", "\\udb40\\udd1e", "\\udb40\\udd1f", "\\udb40\\udd20",
      "\\udb40\\udd21", "\\udb40\\udd22", "\\udb40\\udd23", "\\udb40\\udd24",
      "\\udb40\\udd25", "\\udb40\\udd26", "\\udb40\\udd27", "\\udb40\\udd28",
      "\\udb40\\udd29", "\\udb40\\udd2a", "\\udb40\\udd2b", "\\udb40\\udd2c",
      "\\udb40\\udd2d", "\\udb40\\udd2e", "\\udb40\\udd2f", "\\udb40\\udd30",
      "\\udb40\\udd31", "\\udb40\\udd32", "\\udb40\\udd33", "\\udb40\\udd34",
      "\\udb40\\udd35", "\\udb40\\udd36", "\\udb40\\udd37", "\\udb40\\udd38",
      "\\udb40\\udd39", "\\udb40\\udd3a", "\\udb40\\udd3b", "\\udb40\\udd3c",
      "\\udb40\\udd3d", "\\udb40\\udd3e", "\\udb40\\udd3f", "\\udb40\\udd40",
      "\\udb40\\udd41", "\\udb40\\udd42", "\\udb40\\udd43", "\\udb40\\udd44",
      "\\udb40\\udd45", "\\udb40\\udd46", "\\udb40\\udd47", "\\udb40\\udd48",
      "\\udb40\\udd49", "\\udb40\\udd4a", "\\udb40\\udd4b", "\\udb40\\udd4c",
      "\\udb40\\udd4d", "\\udb40\\udd4e", "\\udb40\\udd4f", "\\udb40\\udd50",
      "\\udb40\\udd51", "\\udb40\\udd52", "\\udb40\\udd53", "\\udb40\\udd54",
      "\\udb40\\udd55", "\\udb40\\udd56", "\\udb40\\udd57", "\\udb40\\udd58",
      "\\udb40\\udd59", "\\udb40\\udd5a", "\\udb40\\udd5b", "\\udb40\\udd5c",
      "\\udb40\\udd5d", "\\udb40\\udd5e", "\\udb40\\udd5f", "\\udb40\\udd60",
      "\\udb40\\udd61", "\\udb40\\udd62", "\\udb40\\udd63", "\\udb40\\udd64",
      "\\udb40\\udd65", "\\udb40\\udd66", "\\udb40\\udd67", "\\udb40\\udd68",
      "\\udb40\\udd69", "\\udb40\\udd6a", "\\udb40\\udd6b", "\\udb40\\udd6c",
      "\\udb40\\udd6d", "\\udb40\\udd6e", "\\udb40\\udd6f", "\\udb40\\udd70",
      "\\udb40\\udd71", "\\udb40\\udd72", "\\udb40\\udd73", "\\udb40\\udd74",
      "\\udb40\\udd75", "\\udb40\\udd76", "\\udb40\\udd77", "\\udb40\\udd78",
      "\\udb40\\udd79", "\\udb40\\udd7a", "\\udb40\\udd7b", "\\udb40\\udd7c",
      "\\udb40\\udd7d", "\\udb40\\udd7e", "\\udb40\\udd7f", "\\udb40\\udd80",
      "\\udb40\\udd81", "\\udb40\\udd82", "\\udb40\\udd83", "\\udb40\\udd84",
      "\\udb40\\udd85", "\\udb40\\udd86", "\\udb40\\udd87", "\\udb40\\udd88",
      "\\udb40\\udd89", "\\udb40\\udd8a", "\\udb40\\udd8b", "\\udb40\\udd8c",
      "\\udb40\\udd8d", "\\udb40\\udd8e", "\\udb40\\udd8f", "\\udb40\\udd90",
      "\\udb40\\udd91", "\\udb40\\udd92", "\\udb40\\udd93", "\\udb40\\udd94",
      "\\udb40\\udd95", "\\udb40\\udd96", "\\udb40\\udd97", "\\udb40\\udd98",
      "\\udb40\\udd99", "\\udb40\\udd9a", "\\udb40\\udd9b", "\\udb40\\udd9c",
      "\\udb40\\udd9d", "\\udb40\\udd9e", "\\udb40\\udd9f", "\\udb40\\udda0",
      "\\udb40\\udda1", "\\udb40\\udda2", "\\udb40\\udda3", "\\udb40\\udda4",
      "\\udb40\\udda5", "\\udb40\\udda6", "\\udb40\\udda7", "\\udb40\\udda8",
      "\\udb40\\udda9", "\\udb40\\uddaa", "\\udb40\\uddab", "\\udb40\\uddac",
      "\\udb40\\uddad", "\\udb40\\uddae", "\\udb40\\uddaf", "\\udb40\\uddb0",
      "\\udb40\\uddb1", "\\udb40\\uddb2", "\\udb40\\uddb3", "\\udb40\\uddb4",
      "\\udb40\\uddb5", "\\udb40\\uddb6", "\\udb40\\uddb7", "\\udb40\\uddb8",
      "\\udb40\\uddb9", "\\udb40\\uddba", "\\udb40\\uddbb", "\\udb40\\uddbc",
      "\\udb40\\uddbd", "\\udb40\\uddbe", "\\udb40\\uddbf", "\\udb40\\uddc0",
      "\\udb40\\uddc1", "\\udb40\\uddc2", "\\udb40\\uddc3", "\\udb40\\uddc4",
      "\\udb40\\uddc5", "\\udb40\\uddc6", "\\udb40\\uddc7", "\\udb40\\uddc8",
      "\\udb40\\uddc9", "\\udb40\\uddca", "\\udb40\\uddcb", "\\udb40\\uddcc",
      "\\udb40\\uddcd", "\\udb40\\uddce", "\\udb40\\uddcf", "\\udb40\\uddd0",
      "\\udb40\\uddd1", "\\udb40\\uddd2", "\\udb40\\uddd3", "\\udb40\\uddd4",
      "\\udb40\\uddd5", "\\udb40\\uddd6", "\\udb40\\uddd7", "\\udb40\\uddd8",
      "\\udb40\\uddd9", "\\udb40\\uddda", "\\udb40\\udddb", "\\udb40\\udddc",
      "\\udb40\\udddd", "\\udb40\\uddde", "\\udb40\\udddf", "\\udb40\\udde0",
      "\\udb40\\udde1", "\\udb40\\udde2", "\\udb40\\udde3", "\\udb40\\udde4",
      "\\udb40\\udde5", "\\udb40\\udde6", "\\udb40\\udde7", "\\udb40\\udde8",
      "\\udb40\\udde9", "\\udb40\\uddea", "\\udb40\\uddeb", "\\udb40\\uddec",
      "\\udb40\\udded", "\\udb40\\uddee", "\\udb40\\uddef"}

\* Final_Sigma: the capital sigma at position k follows a cased letter and
\* is not followed by one, case-ignorable characters skipped on both sides
final_sigma(s, k) ==
    LET before == {j \in 1..(k - 1) : s[j] \notin CaseIgnorable}
        after == {j \in (k + 1)..Len(s) : s[j] \notin CaseIgnorable}
    IN  /\ before # {}
        /\ s[CHOOSE j \in before : \A i \in before : i <= j] \in CasedLetters
        /\ \/ after = {}
           \/ s[CHOOSE j \in after : \A i \in after : j <= i]
                  \notin CasedLetters

\* what the character at position k of s becomes in s.lower()
lower_char(s, k) ==
    IF s[k] = "\\u03a3"
    THEN IF final_sigma(s, k) THEN <<"\\u03c2">> ELSE <<"\\u03c3">>
    ELSE IF \E n \in DOMAIN UpperCase : UpperCase[n] = s[k]
    THEN LowerCase[CHOOSE n \in DOMAIN UpperCase : UpperCase[n] = s[k]]
    ELSE <<s[k]>>

RECURSIVE lower_from(_, _)
lower_from(s, k) ==
    IF k > Len(s) THEN <<>> ELSE lower_char(s, k) \o lower_from(s, k + 1)

\* str.lower()
lower(s) == lower_from(s, 1)

\* the characters c with c.upper() # c, and at the same index what
\* c.upper() is made of
SmallCase ==
    <<"a", "b", "c", "d", "e", "f", "g", "h", "i", "j", "k", "l", "m", "n",
      "o", "p", "q", "r", "s", "t", "u", "v", "w", "x", "y", "z", "\\u00b5",
      "\\u00df", "\\u00e0", "\\u00e1", "\\u00e2", "\\u00e3", "\\u00e4",
      "\\u00e5", "\\u00e6", "\\u00e7", "\\u00e8", "\\u00e9", "\\u00ea",
      "\\u00eb", "\\u00ec", "\\u00ed", "\\u00ee", "\\u00ef", "\\u00f0",
      "\\u00f1", "\\u00f2", "\\u00f3", "\\u00f4", "\\u00f5", "\\u00f6",
      "\\u00f8", "\\u00f9", "\\u00fa", "\\u00fb", "\\u00fc", "\\u00fd",
      "\\u00fe", "\\u00ff", "\\u0101", "\\u0103", "\\u0105", "\\u0107",
      "\\u0109", "\\u010b", "\\u010d", "\\u010f", "\\u0111", "\\u0113",
      "\\u0115", "\\u0117", "\\u0119", "\\u011b", "\\u011d", "\\u011f",
      "\\u0121", "\\u0123", "\\u0125", "\\u0127", "\\u0129", "\\u012b",
      "\\u012d", "\\u012f", "\\u0131", "\\u0133", "\\u0135", "\\u0137",
      "\\u013a", "\\u013c", "\\u013e", "\\u0140", "\\u0142", "\\u0144",
      "\\u0146", "\\u0148", "\\u0149", "\\u014b", "\\u014d", "\\u014f",
      "\\u0151", "\\u0153", "\\u0155", "\\u0157", "\\u0159", "\\u015b",
      "\\u015d", "\\u015f", "\\u0161", "\\u0163", "\\u0165", "\\u0167",
      "\\u0169", "\\u016b", "\\u016d", "\\u016f", "\\u0171", "\\u0173",
      "\\u0175", "\\u0177", "\\u017a", "\\u017c", "\\u017e", "\\u017f",
      "\\u0180", "\\u0183", "\\u0185", "\\u0188", "\\u018c", "\\u0192",
      "\\u0195", "\\u0199", "\\u019a", "\\u019e", "\\u01a1", "\\u01a3",
      "\\u01a5", "\\u01a8", "\\u01ad", "\\u01b0", "\\u01b4", "\\u01b6",
      "\\u01b9", "\\u01bd", "\\u01bf", "\\u01c5", "\\u01c6", "\\u01c8",
      "\\u01c9", "\\u01cb", "\\u01cc", "\\u01ce", "\\u01d0", "\\u01d2",
      "\\u01d4", "\\u01d6", "\\u01d8", "\\u01da", "\\u01dc", "\\u01dd",
      "\\u01df", "\\u01e1", "\\u01e3", "\\u01e5", "\\u01e7", "\\u01e9",
      "\\u01eb", "\\u01ed", "\\u01ef", "\\u01f0", "\\u01f2", "\\u01f3",
      "\\u01f5", "\\u01f9", "\\u01fb", "\\u01fd", "\\u01ff", "\\u0201",
      "\\u0203", "\\u0205", "\\u0207", "\\u0209", "\\u020b", "\\u020d",
      "\\u020f", "\\u0211", "\\u0213", "\\u0215", "\\u0217", "\\u0219",
      "\\u021b", "\\u021d", "\\u021f", "\\u0223", "\\u0225", "\\u0227",
      "\\u0229", "\\u022b", "\\u022d", "\\u022f", "\\u0231", "\\u0233",
      "\\u023c", "\\u023f", "\\u0240", "\\u0242", "\\u0247", "\\u0249",
      "\\u024b", "\\u024d", "\\u024f", "\\u0250", "\\u0251", "\\u0252",
      "\\u0253", "\\u0254", "\\u0256", "\\u0257", "\\u0259", "\\u025b",
      "\\u025c", "\\u0260", "\\u0261", "\\u0263", "\\u0265", "\\u0266",
      "\\u0268", "\\u0269", "\\u026a", "\\u026b", "\\u026c", "\\u026f",
      "\\u0271", "\\u0272", "\\u0275", "\\u027d", "\\u0280", "\\u0282",
      "\\u0283", "\\u0287", "\\u0288", "\\u0289", "\\u028a", "\\u028b",
      "\\u028c", "\\u0292", "\\u029d", "\\u029e", "\\u0345", "\\u0371",
      "\\u0373", "\\u0377", "\\u037b", "\\u037c", "\\u037d", "\\u0390",
      "\\u03ac", "\\u03ad", "\\u03ae", "\\u03af", "\\u03b0", "\\u03b1",
      "\\u03b2", "\\u03b3", "\\u03b4", "\\u03b5", "\\u03b6", "\\u03b7",
      "\\u03b8", "\\u03b9", "\\u03ba", "\\u03bb", "\\u03bc", "\\u03bd",
      "\\u03be", "\\u03bf", "\\u03c0", "\\u03c1", "\\u03c2", "\\u03c3",
      "\\u03c4", "\\u03c5", "\\u03c6", "\\u03c7", "\\u03c8", "\\u03c9",
      "\\u03ca", "\\u03cb", "\\u03cc", "\\u03cd", "\\u03ce", "\\u03d0",
      "\\u03d1", "\\u03d5", "\\u03d6", "\\u03d7", "\\u03d9", "\\u03db",
      "\\u03dd", "\\u03df", "\\u03e1", "\\u03e3", "\\u03e5", "\\u03e7",
      "\\u03e9", "\\u03eb", "\\u03ed", "\\u03ef", "\\u03f0", "\\u03f1",
      "\\u03f2", "\\u03f3", "\\u03f5", "\\u03f8", "\\u03fb", "\\u0430",
      "\\u0431", "\\u0432", "\\u0433", "\\u0434", "\\u0435", "\\u0436",
      "\\u0437", "\\u0438", "\\u0439", "\\u043a", "\\u043b", "\\u043c",
      "\\u043d", "\\u043e", "\\u043f", "\\u0440", "\\u0441", "\\u0442",
      "\\u0443", "\\u0444", "\\u0445", "\\u0446", "\\u0447", "\\u0448",
      "\\u0449", "\\u044a", "\\u044b", "\\u044c", "\\u044d", "\\u044e",
      "\\u044f", "\\u0450", "\\u0451", "\\u0452", "\\u0453", "\\u0454",
      "\\u0455", "\\u0456", "\\u0457", "\\u0458", "\\u0459", "\\u045a",
      "\\u045b", "\\u045c", "\\u045d", "\\u045e", "\\u045f", "\\u0461",
      "\\u0463", "\\u0465", "\\u0467", "\\u0469", "\\u046b", "\\u046d",
      "\\u046f", "\\u0471", "\\u0473", "\\u0475", "\\u0477", "\\u0479",
      "\\u047b", "\\u047d", "\\u047f", "\\u0481", "\\u048b", "\\u048d",
      "\\u048f", "\\u0491", "\\u0493", "\\u0495", "\\u0497", "\\u0499",
      "\\u049b", "\\u049d", "\\u049f", "\\u04a1", "\\u04a3", "\\u04a5",
      "\\u04a7", "\\u04a9", "\\u04ab", "\\u04ad", "\\u04af", "\\u04b1",
      "\\u04b3", "\\u04b5", "\\u04b7", "\\u04b9", "\\u04bb", "\\u04bd",
      "\\u04bf", "\\u04c2", "\\u04c4", "\\u04c6", "\\u04c8", "\\u04ca",
      "\\u04cc", "\\u04ce", "\\u04cf", "\\u04d1", "\\u04d3", "\\u04d5",
      "\\u04d7", "\\u04d9", "\\u04db", "\\u04dd", "\\u04df", "\\u04e1",
      "\\u04e3", "\\u04e5", "\\u04e7", "\\u04e9", "\\u04eb", "\\u04ed",
      "\\u04ef", "\\u04f1", "\\u04f3", "\\u04f5", "\\u04f7", "\\u04f9",
      "\\u04fb", "\\u04fd", "\\u04ff", "\\u0501", "\\u0503", "\\u0505",
      "\\u0507", "\\u0509", "\\u050b", "\\u050d", "\\u050f", "\\u0511",
      "\\u0513", "\\u0515", "\\u0517", "\\u0519", "\\u051b", "\\u051d",
      "\\u051f", "\\u0521", "\\u0523", "\\u0525", "\\u0527", "\\u0529",
      "\\u052b", "\\u052d", "\\u052f", "\\u0561", "\\u0562", "\\u0563",
      "\\u0564", "\\u0565", "\\u0566", "\\u0567", "\\u0568", "\\u0569",
      "\\u056a", "\\u056b", "\\u056c", "\\u056d", "\\u056e", "\\u056f",
      "\\u0570", "\\u0571", "\\u0572", "\\u0573", "\\u0574", "\\u0575",
      "\\u0576", "\\u0577", "\\u0578", "\\u0579", "\\u057a", "\\u057b",
      "\\u057c", "\\u057d", "\\u057e", "\\u057f", "\\u0580", "\\u0581",
      "\\u0582", "\\u0583", "\\u0584", "\\u0585", "\\u0586", "\\u0587",
      "\\u10d0", "\\u10d1", "\\u10d2", "\\u10d3", "\\u10d4", "\\u10d5",
      "\\u10d6", "\\u10d7", "\\u10d8", "\\u10d9", "\\u10da", "\\u10db",
      "\\u10dc", "\\u10dd", "\\u10de", "\\u10df", "\\u10e0", "\\u10e1",
      "\\u10e2", "\\u10e3", "\\u10e4", "\\u10e5", "\\u10e6", "\\u10e7",
      "\\u10e8", "\\u10e9", "\\u10ea", "\\u10eb", "\\u10ec", "\\u10ed",
      "\\u10ee", "\\u10ef", "\\u10f0", "\\u10f1", "\\u10f2", "\\u10f3",
      "\\u10f4", "\\u10f5", "\\u10f6", "\\u10f7", "\\u10f8", "\\u10f9",
      "\\u10fa", "\\u10fd", "\\u10fe", "\\u10ff", "\\u13f8", "\\u13f9",
      "\\u13fa", "\\u13fb", "\\u13fc", "\\u13fd", "\\u1c80", "\\u1c81",
      "\\u1c82", "\\u1c83", "\\u1c84", "\\u1c85", "\\u1c86", "\\u1c87",
      "\\u1c88", "\\u1d79", "\\u1d7d", "\\u1d8e", "\\u1e01", "\\u1e03",
      "\\u1e05", "\\u1e07", "\\u1e09", "\\u1e0b", "\\u1e0d", "\\u1e0f",
      "\\u1e11", "\\u1e13", "\\u1e15", "\\u1e17", "\\u1e19", "\\u1e1b",
      "\\u1e1d", "\\u1e1f", "\\u1e21", "\\u1e23", "\\u1e25", "\\u1e27",
      "\\u1e29", "\\u1e2b", "\\u1e2d", "\\u1e2f", "\\u1e31", "\\u1e33",
      "\\u1e35", "\\u1e37", "\\u1e39", "\\u1e3b", "\\u1e3d", "\\u1e3f",
      "\\u1e41", "\\u1e43", "\\u1e45", "\\u1e47", "\\u1e49", "\\u1e4b",
      "\\u1e4d", "\\u1e4f", "\\u1e51", "\\u1e53", "\\u1e55", "\\u1e57",
      "\\u1e59", "\\u1e5b", "\\u1e5d", "\\u1e5f", "\\u1e61", "\\u1e63",
      "\\u1e65", "\\u1e67", "\\u1e69", "\\u1e6b", "\\u1e6d", "\\u1e6f",
      "\\u1e71", "\\u1e73", "\\u1e75", "\\u1e77", "\\u1e79", "\\u1e7b",
      "\\u1e7d", "\\u1e7f", "\\u1e81", "\\u1e83", "\\u1e85", "\\u1e87",
      "\\u1e89", "\\u1e8b", "\\u1e8d", "\\u1e8f", "\\u1e91", "\\u1e93",
      "\\u1e95", "\\u1e96", "\\u1e97", "\\u1e98", "\\u1e99", "\\u1e9a",
      "\\u1e9b", "\\u1ea1", "\\u1ea3", "\\u1ea5", "\\u1ea7", "\\u1ea9",
      "\\u1eab", "\\u1ead", "\\u1eaf", "\\u1eb1", "\\u1eb3", "\\u1eb5",
      "\\u1eb7", "\\u1eb9", "\\u1ebb", "\\u1ebd", "\\u1ebf", "\\u1ec1",
      "\\u1ec3", "\\u1ec5", "\\u1ec7", "\\u1ec9", "\\u1ecb", "\\u1ecd",
      "\\u1ecf", "\\u1ed1", "\\u1ed3", "\\u1ed5", "\\u1ed7", "\\u1ed9",
      "\\u1edb", "\\u1edd", "\\u1edf", "\\u1ee1", "\\u1ee3", "\\u1ee5",
      "\\u1ee7", "\\u1ee9", "\\u1eeb", "\\u1eed", "\\u1eef", "\\u1ef1",
      "\\u1ef3", "\\u1ef5", "\\u1ef7", "\\u1ef9", "\\u1efb", "\\u1efd",
      "\\u1eff", "\\u1f00", "\\u1f01", "\\u1f02", "\\u1f03", "\\u1f04",
      "\\u1f05", "\\u1f06", "\\u1f07", "\\u1f10", "\\u1f11", "\\u1f12",
      "\\u1f13", "\\u1f14", "\\u1f15", "\\u1f20", "\\u1f21", "\\u1f22",
      "\\u1f23", "\\u1f24", "\\u1f25", "\\u1f26", "\\u1f27", "\\u1f30",
      "\\u1f31", "\\u1f32", "\\u1f33", "\\u1f34", "\\u1f35", "\\u1f36",
      "\\u1f37", "\\u1f40", "\\u1f41", "\\u1f42", "\\u1f43", "\\u1f44",
      "\\u1f45", "\\u1f50", "\\u1f51", "\\u1f52", "\\u1f53", "\\u1f54",
      "\\u1f55", "\\u1f56", "\\u1f57", "\\u1f60", "\\u1f61", "\\u1f62",
      "\\u1f63", "\\u1f64", "\\u1f65", "\\u1f66", "\\u1f67", "\\u1f70",
      "\\u1f71", "\\u1f72", "\\u1f73", "\\u1f74", "\\u1f75", "\\u1f76",
      "\\u1f77", "\\u1f78", "\\u1f79", "\\u1f7a", "\\u1f7b", "\\u1f7c",
      "\\u1f7d", "\\u1f80", "\\u1f81", "\\u1f82", "\\u1f83", "\\u1f84",
      "\\u1f85", "\\u1f86", "\\u1f87", "\\u1f88", "\\u1f89", "\\u1f8a",
      "\\u1f8b", "\\u1f8c", "\\u1f8d", "\\u1f8e", "\\u1f8f", "\\u1f90",
      "\\u1f91", "\\u1f92", "\\u1f93", "\\u1f94", "\\u1f95", "\\u1f96",
      "\\u1f97", "\\u1f98", "\\u1f99", "\\u1f9a", "\\u1f9b", "\\u1f9c",
      "\\u1f9d", "\\u1f9e", "\\u1f9f", "\\u1fa0", "\\u1fa1", "\\u1fa2",
      "\\u1fa3", "\\u1fa4", "\\u1fa5", "\\u1fa6", "\\u1fa7", "\\u1fa8",
      "\\u1fa9", "\\u1faa", "\\u1fab", "\\u1fac", "\\u1fad", "\\u1fae",
      "\\u1faf", "\\u1fb0", "\\u1fb1", "\\u1fb2", "\\u1fb3", "\\u1fb4",
      "\\u1fb6", "\\u1fb7", "\\u1fbc", "\\u1fbe", "\\u1fc2", "\\u1fc3",
      "\\u1fc4", "\\u1fc6", "\\u1fc7", "\\u1fcc", "\\u1fd0", "\\u1fd1",
      "\\u1fd2", "\\u1fd3", "\\u1fd6", "\\u1fd7", "\\u1fe0", "\\u1fe1",
      "\\u1fe2", "\\u1fe3", "\\u1fe4", "\\u1fe5", "\\u1fe6", "\\u1fe7",
      "\\u1ff2", "\\u1ff3", "\\u1ff4", "\\u1ff6", "\\u1ff7", "\\u1ffc",
      "\\u214e", "\\u2170", "\\u2171", "\\u2172", "\\u2173", "\\u2174",
      "\\u2175", "\\u2176", "\\u2177", "\\u2178", "\\u2179", "\\u217a",
      "\\u217b", "\\u217c", "\\u217d", "\\u217e", "\\u217f", "\\u2184",
      "\\u24d0", "\\u24d1", "\\u24d2", "\\u24d3", "\\u24d4", "\\u24d5",
      "\\u24d6", "\\u24d7", "\\u24d8", "\\u24d9", "\\u24da", "\\u24db",
      "\\u24dc", "\\u24dd", "\\u24de", "\\u24df", "\\u24e0", "\\u24e1",
      "\\u24e2", "\\u24e3", "\\u24e4", "\\u24e5", "\\u24e6", "\\u24e7",
      "\\u24e8", "\\u24e9", "\\u2c30", "\\u2c31", "\\u2c32", "\\u2c33",
      "\\u2c34", "\\u2c35", "\\u2c36", "\\u2c37", "\\u2c38", "\\u2c39",
      "\\u2c3a", "\\u2c3b", "\\u2c3c", "\\u2c3d", "\\u2c3e", "\\u2c3f",
      "\\u2c40", "\\u2c41", "\\u2c42", "\\u2c43", "\\u2c44", "\\u2c45",
      "\\u2c46", "\\u2c47", "\\u2c48", "\\u2c49", "\\u2c4a", "\\u2c4b",
      "\\u2c4c", "\\u2c4d", "\\u2c4e", "\\u2c4f", "\\u2c50", "\\u2c51",
      "\\u2c52", "\\u2c53", "\\u2c54", "\\u2c55", "\\u2c56", "\\u2c57",
      "\\u2c58", "\\u2c59", "\\u2c5a", "\\u2c5b", "\\u2c5c", "\\u2c5d",
      "\\u2c5e", "\\u2c5f", "\\u2c61", "\\u2c65", "\\u2c66", "\\u2c68",
      "\\u2c6a", "\\u2c6c", "\\u2c73", "\\u2c76", "\\u2c81", "\\u2c83",
      "\\u2c85", "\\u2c87", "\\u2c89", "\\u2c8b", "\\u2c8d", "\\u2c8f",
      "\\u2c91", "\\u2c93", "\\u2c95", "\\u2c97", "\\u2c99", "\\u2c9b",
      "\\u2c9d", "\\u2c9f", "\\u2ca1", "\\u2ca3", "\\u2ca5", "\\u2ca7",
      "\\u2ca9", "\\u2cab", "\\u2cad", "\\u2caf", "\\u2cb1", "\\u2cb3",
      "\\u2cb5", "\\u2cb7", "\\u2cb9", "\\u2cbb", "\\u2cbd", "\\u2cbf",
      "\\u2cc1", "\\u2cc3", "\\u2cc5", "\\u2cc7", "\\u2cc9", "\\u2ccb",
      "\\u2ccd", "\\u2ccf", "\\u2cd1", "\\u2cd3", "\\u2cd5", "\\u2cd7",
      "\\u2cd9", "\\u2cdb", "\\u2cdd", "\\u2cdf", "\\u2ce1", "\\u2ce3",
      "\\u2cec", "\\u2cee", "\\u2cf3", "\\u2d00", "\\u2d01", "\\u2d02",
      "\\u2d03", "\\u2d04", "\\u2d05", "\\u2d06", "\\u2d07", "\\u2d08",
      "\\u2d09", "\\u2d0a", "\\u2d0b", "\\u2d0c", "\\u2d0d", "\\u2d0e",
      "\\u2d0f", "\\u2d10", "\\u2d11", "\\u2d12", "\\u2d13", "\\u2d14",
      "\\u2d15", "\\u2d16", "\\u2d17", "\\u2d18", "\\u2d19", "\\u2d1a",
      "\\u2d1b", "\\u2d1c", "\\u2d1d", "\\u2d1e", "\\u2d1f", "\\u2d20",
      "\\u2d21", "\\u2d22", "\\u2d23", "\\u2d24", "\\u2d25", "\\u2d27",
      "\\u2d2d", "\\ua641", "\\ua643", "\\ua645", "\\ua647", "\\ua649",
      "\\ua64b", "\\ua64d", "\\ua64f", "\\ua651", "\\ua653", "\\ua655",
      "\\ua657", "\\ua659", "\\ua65b", "\\ua65d", "\\ua65f", "\\ua661",
      "\\ua663", "\\ua665", "\\ua667", "\\ua669", "\\ua66b", "\\ua66d",
      "\\ua681", "\\ua683", "\\ua685", "\\ua687", "\\ua689", "\\ua68b",
      "\\ua68d", "\\ua68f", "\\ua691", "\\ua693", "\\ua695", "\\ua697",
      "\\ua699", "\\ua69b", "\\ua723", "\\ua725", "\\ua727", "\\ua729",
      "\\ua72b", "\\ua72d", "\\ua72f", "\\ua733", "\\ua735", "\\ua737",
      "\\ua739", "\\ua73b", "\\ua73d", "\\ua73f", "\\ua741", "\\ua743",
      "\\ua745", "\\ua747", "\\ua749", "\\ua74b", "\\ua74d", "\\ua74f",
      "\\ua751", "\\ua753", "\\ua755", "\\ua757", "\\ua759", "\\ua75b",
      "\\ua75d", "\\ua75f", "\\ua761", "\\ua763", "\\ua765", "\\ua767",
      "\\ua769", "\\ua76b", "\\ua76d", "\\ua76f", "\\ua77a", "\\ua77c",
      "\\ua77f", "\\ua781", "\\ua783", "\\ua785", "\\ua787", "\\ua78c",
      "\\ua791", "\\ua793", "\\ua794", "\\ua797", "\\ua799", "\\ua79b",
      "\\ua79d", "\\ua79f", "\\ua7a1", "\\ua7a3", "\\ua7a5", "\\ua7a7",
      "\\ua7a9", "\\ua7b5", "\\ua7b7", "\\ua7b9", "\\ua7bb", "\\ua7bd",
      "\\ua7bf", "\\ua7c1", "\\ua7c3", "\\ua7c8", "\\ua7ca", "\\ua7d1",
      "\\ua7d7", "\\ua7d9", "\\ua7f6", "\\uab53", "\\uab70", "\\uab71",
      "\\uab72", "\\uab73", "\\uab74", "\\uab75", "\\uab76", "\\uab77",
      "\\uab78", "\\uab79", "\\uab7a", "\\uab7b", "\\uab7c", "\\uab7d",
      "\\uab7e", "\\uab7f", "\\uab80", "\\uab81", "\\uab82", "\\uab83",
      "\\uab84", "\\uab85", "\\uab86", "\\uab87", "\\uab88", "\\uab89",
      "\\uab8a", "\\uab8b", "\\uab8c", "\\uab8d", "\\uab8e", "\\uab8f",
      "\\uab90", "\\uab91", "\\uab92", "\\uab93", "\\uab94", "\\uab95",
      "\\uab96", "\\uab97", "\\uab98", "\\uab99", "\\uab9a", "\\uab9b",
      "\\uab9c", "\\uab9d", "\\uab9e", "\\uab9f", "\\uaba0", "\\uaba1",
      "\\uaba2", "\\uaba3", "\\uaba4", "\\uaba5", "\\uaba6", "\\uaba7",
      "\\uaba8", "\\uaba9", "\\uabaa", "\\uabab", "\\uabac", "\\uabad",
      "\\uabae", "\\uabaf", "\\uabb0", "\\uabb1", "\\uabb2", "\\uabb3",
      "\\uabb4", "\\uabb5", "\\uabb6", "\\uabb7", "\\uabb8", "\\uabb9",
      "\\uabba", "\\uabbb", "\\uabbc", "\\uabbd", "\\uabbe", "\\uabbf",
      "\\ufb00", "\\ufb01", "\\ufb02", "\\ufb03", "\\ufb04", "\\ufb05",
      "\\ufb06", "\\ufb13", "\\ufb14", "\\ufb15", "\\ufb16", "\\ufb17",
      "\\uff41", "\\uff42", "\\uff43", "\\uff44", "\\uff45", "\\uff46",
      "\\uff47", "\\uff48", "\\uff49", "\\uff4a", "\\uff4b", "\\uff4c",
      "\\uff4d", "\\uff4e", "\\uff4f", "\\uff50", "\\uff51", "\\uff52",
      "\\uff53", "\\uff54", "\\uff55", "\\uff56", "\\uff57", "\\uff58",
      "\\uff59", "\\uff5a", "\\ud801\\udc28", "\\ud801\\udc29",
      "\\ud801\\udc2a", "\\ud801\\udc2b", "\\ud801\\udc2c", "\\ud801\\udc2d",
      "\\ud801\\udc2e", "\\ud801\\udc2f", "\\ud801\\udc30", "\\ud801\\udc31",
      "\\ud801\\udc32", "\\ud801\\udc33", "\\ud801\\udc34", "\\ud801\\udc35",
      "\\ud801\\udc36", "\\ud801\\udc37", "\\ud801\\udc38", "\\ud801\\udc39",
      "\\ud801\\udc3a", "\\ud801\\udc3b", "\\ud801\\udc3c", "\\ud801\\udc3d",
      "\\ud801\\udc3e", "\\ud801\\udc3f", "\\ud801\\udc40", "\\ud801\\udc41",
      "\\ud801\\udc42", "\\ud801\\udc43", "\\ud801\\udc44", "\\ud801\\udc45",
      "\\ud801\\udc46", "\\ud801\\udc47", "\\ud801\\udc48", "\\ud801\\udc49",
      "\\ud801\\udc4a", "\\ud801\\udc4b", "\\ud801\\udc4c", "\\ud801\\udc4d",
      "\\ud801\\udc4e", "\\ud801\\udc4f", "\\ud801\\udcd8", "\\ud801\\udcd9",
      "\\ud801\\udcda", "\\ud801\\udcdb", "\\ud801\\udcdc", "\\ud801\\udcdd",
      "\\ud801\\udcde", "\\ud801\\udcdf", "\\ud801\\udce0", "\\ud801\\udce1",
      "\\ud801\\udce2", "\\ud801\\udce3", "\\ud801\\udce4", "\\ud801\\udce5",
      "\\ud801\\udce6", "\\ud801\\udce7", "\\ud801\\udce8", "\\ud801\\udce9",
      "\\ud801\\udcea", "\\ud801\\udceb", "\\ud801\\udcec", "\\ud801\\udced",
      "\\ud801\\udcee", "\\ud801\\udcef", "\\ud801\\udcf0", "\\ud801\\udcf1",
      "\\ud801\\udcf2", "\\ud801\\udcf3", "\\ud801\\udcf4", "\\ud801\\udcf5",
      "\\ud801\\udcf6", "\\ud801\\udcf7", "\\ud801\\udcf8", "\\ud801\\udcf9",
      "\\ud801\\udcfa", "\\ud801\\udcfb", "\\ud801\\udd97", "\\ud801\\udd98",
      "\\ud801\\udd99", "\\ud801\\udd9a", "\\ud801\\udd9b", "\\ud801\\udd9c",
      "\\ud801\\udd9d", "\\ud801\\udd9e", "\\ud801\\udd9f", "\\ud801\\udda0",
      "\\ud801\\udda1", "\\ud801\\udda3", "\\ud801\\udda4", "\\ud801\\udda5",
      "\\ud801\\udda6", "\\ud801\\udda7", "\\ud801\\udda8", "\\ud801\\udda9",
      "\\ud801\\uddaa", "\\ud801\\uddab", "\\ud801\\uddac", "\\ud801\\uddad",
      "\\ud801\\uddae", "\\ud801\\uddaf", "\\ud801\\uddb0", "\\ud801\\uddb1",
      "\\ud801\\uddb3", "\\ud801\\uddb4", "\\ud801\\uddb5", "\\ud801\\uddb6",
      "\\ud801\\uddb7", "\\ud801\\uddb8", "\\ud801\\uddb9", "\\ud801\\uddbb",
      "\\ud801\\uddbc", "\\ud803\\udcc0", "\\ud803\\udcc1", "\\ud803\\udcc2",
      "\\ud803\\udcc3", "\\ud803\\udcc4", "\\ud803\\udcc5", "\\ud803\\udcc6",
      "\\ud803\\udcc7", "\\ud803\\udcc8", "\\ud803\\udcc9", "\\ud803\\udcca",
      "\\ud803\\udccb", "\\ud803\\udccc", "\\ud803\\udccd", "\\ud803\\udcce",
      "\\ud803\\udccf", "\\ud803\\udcd0", "\\ud803\\udcd1", "\\ud803\\udcd2",
      "\\ud803\\udcd3", "\\ud803\\udcd4", "\\ud803\\udcd5", "\\ud803\\udcd6",
      "\\ud803\\udcd7", "\\ud803\\udcd8", "\\ud803\\udcd9", "\\ud803\\udcda",
      "\\ud803\\udcdb", "\\ud803\\udcdc", "\\ud803\\udcdd", "\\ud803\\udcde",
      "\\ud803\\udcdf", "\\ud803\\udce0", "\\ud803\\udce1", "\\ud803\\udce2",
      "\\ud803\\udce3", "\\ud803\\udce4", "\\ud803\\udce5", "\\ud803\\udce6",
      "\\ud803\\udce7", "\\ud803\\udce8", "\\ud803\\udce9", "\\ud803\\udcea",
      "\\ud803\\udceb", "\\ud803\\udcec", "\\ud803\\udced", "\\ud803\\udcee",
      "\\ud803\\udcef", "\\ud803\\udcf0", "\\ud803\\udcf1", "\\ud803\\udcf2",
      "\\ud806\\udcc0", "\\ud806\\udcc1", "\\ud806\\udcc2", "\\ud806\\udcc3",
      "\\ud806\\udcc4", "\\ud806\\udcc5", "\\ud806\\udcc6", "\\ud806\\udcc7",
      "\\ud806\\udcc8", "\\ud806\\udcc9", "\\ud806\\udcca", "\\ud806\\udccb",
      "\\ud806\\udccc", "\\ud806\\udccd", "\\ud806\\udcce", "\\ud806\\udccf",
      "\\ud806\\udcd0", "\\ud806\\udcd1", "\\ud806\\udcd2", "\\ud806\\udcd3",
      "\\ud806\\udcd4", "\\ud806\\udcd5", "\\ud806\\udcd6", "\\ud806\\udcd7",
      "\\ud806\\udcd8", "\\ud806\\udcd9", "\\ud806\\udcda", "\\ud806\\udcdb",
      "\\ud806\\udcdc", "\\ud806\\udcdd", "\\ud806\\udcde", "\\ud806\\udcdf",
      "\\ud81b\\ude60", "\\ud81b\\ude61", "\\ud81b\\ude62", "\\ud81b\\ude63",
      "\\ud81b\\ude64", "\\ud81b\\ude65", "\\ud81b\\ude66", "\\ud81b\\ude67",
      "\\ud81b\\ude68", "\\ud81b\\ude69", "\\ud81b\\ude6a", "\\ud81b\\ude6b",
      "\\ud81b\\ude6c", "\\ud81b\\ude6d", "\\ud81b\\ude6e", "\\ud81b\\ude6f",
      "\\ud81b\\ude70", "\\ud81b\\ude71", "\\ud81b\\ude72", "\\ud81b\\ude73",
      "\\ud81b\\ude74", "\\ud81b\\ude75", "\\ud81b\\ude76", "\\ud81b\\ude77",
      "\\ud81b\\ude78", "\\ud81b\\ude79", "\\ud81b\\ude7a", "\\ud81b\\ude7b",
      "\\ud81b\\ude7c", "\\ud81b\\ude7d", "\\ud81b\\ude7e", "\\ud81b\\ude7f",
      "\\ud83a\\udd22", "\\ud83a\\udd23", "\\ud83a\\udd24", "\\ud83a\\udd25",
      "\\ud83a\\udd26", "\\ud83a\\udd27", "\\ud83a\\udd28", "\\ud83a\\udd29",
      "\\ud83a\\udd2a", "\\ud83a\\udd2b", "\\ud83a\\udd2c", "\\ud83a\\udd2d",
      "\\ud83a\\udd2e", "\\ud83a\\udd2f", "\\ud83a\\udd30", "\\ud83a\\udd31",
      "\\ud83a\\udd32", "\\ud83a\\udd33", "\\ud83a\\udd34", "\\ud83a\\udd35",
      "\\ud83a\\udd36", "\\ud83a\\udd37", "\\ud83a\\udd38", "\\ud83a\\udd39",
      "\\ud83a\\udd3a", "\\ud83a\\udd3b", "\\ud83a\\udd3c", "\\ud83a\\udd3d",
      "\\ud83a\\udd3e", "\\ud83a\\udd3f", "\\ud83a\\udd40", "\\ud83a\\udd41",
      "\\ud83a\\udd42", "\\ud83a\\udd43">>

CapitalCase ==
    <<<<"A">>, <<"B">>, <<"C">>, <<"D">>, <<"E">>, <<"F">>, <<"G">>, <<"H">>,
      <<"I">>, <<"J">>, <<"K">>, <<"L">>, <<"M">>, <<"N">>, <<"O">>, <<"P">>,
      <<"Q">>, <<"R">>, <<"S">>, <<"T">>, <<"U">>, <<"V">>, <<"W">>, <<"X">>,
      <<"Y">>, <<"Z">>, <<"\\u039c">>, <<"S", "S">>, <<"\\u00c0">>,
      <<"\\u00c1">>, <<"\\u00c2">>, <<"\\u00c3">>, <<"\\u00c4">>,
      <<"\\u00c5">>, <<"\\u00c6">>, <<"\\u00c7">>, <<"\\u00c8">>,
      <<"\\u00c9">>, <<"\\u00ca">>, <<"\\u00cb">>, <<"\\u00cc">>,
      <<"\\u00cd">>, <<"\\u00ce">>, <<"\\u00cf">>, <<"\\u00d0">>,
      <<"\\u00d1">>, <<"\\u00d2">>, <<"\\u00d3">>, <<"\\u00d4">>,
      <<"\\u00d5">>, <<"\\u00d6">>, <<"\\u00d8">>, <<"\\u00d9">>,
      <<"\\u00da">>, <<"\\u00db">>, <<"\\u00dc">>, <<"\\u00dd">>,
      <<"\\u00de">>, <<"\\u0178">>, <<"\\u0100">>, <<"\\u0102">>,
      <<"\\u0104">>, <<"\\u0106">>, <<"\\u0108">>, <<"\\u010a">>,
      <<"\\u010c">>, <<"\\u010e">>, <<"\\u0110">>, <<"\\u0112">>,
      <<"\\u0114">>, <<"\\u0116">>, <<"\\u0118">>, <<"\\u011a">>,
      <<"\\u011c">>, <<"\\u011e">>, <<"\\u0120">>, <<"\\u0122">>,
      <<"\\u0124">>, <<"\\u0126">>, <<"\\u0128">>, <<"\\u012a">>,
      <<"\\u012c">>, <<"\\u012e">>, <<"I">>, <<"\\u0132">>, <<"\\u0134">>,
      <<"\\u0136">>, <<"\\u0139">>, <<"\\u013b">>, <<"\\u013d">>,
      <<"\\u013f">>, <<"\\u0141">>, <<"\\u0143">>, <<"\\u0145">>,
      <<"\\u0147">>, <<"\\u02bc", "N">>, <<"\\u014a">>, <<"\\u014c">>,
      <<"\\u014e">>, <<"\\u0150">>, <<"\\u0152">>, <<"\\u0154">>,
      <<"\\u0156">>, <<"\\u0158">>, <<"\\u015a">>, <<"\\u015c">>,
      <<"\\u015e">>, <<"\\u0160">>, <<"\\u0162">>, <<"\\u0164">>,
      <<"\\u0166">>, <<"\\u0168">>, <<"\\u016a">>, <<"\\u016c">>,
      <<"\\u016e">>, <<"\\u0170">>, <<"\\u0172">>, <<"\\u0174">>,
      <<"\\u0176">>, <<"\\u0179">>, <<"\\u017b">>, <<"\\u017d">>, <<"S">>,
      <<"\\u0243">>, <<"\\u0182">>, <<"\\u0184">>, <<"\\u0187">>,
      <<"\\u018b">>, <<"\\u0191">>, <<"\\u01f6">>, <<"\\u0198">>,
      <<"\\u023d">>, <<"\\u0220">>, <<"\\u01a0">>, <<"\\u01a2">>,
      <<"\\u01a4">>, <<"\\u01a7">>, <<"\\u01ac">>, <<"\\u01af">>,
      <<"\\u01b3">>, <<"\\u01b5">>, <<"\\u01b8">>, <<"\\u01bc">>,
      <<"\\u01f7">>, <<"\\u01c4">>, <<"\\u01c4">>, <<"\\u01c7">>,
      <<"\\u01c7">>, <<"\\u01ca">>, <<"\\u01ca">>, <<"\\u01cd">>,
      <<"\\u01cf">>, <<"\\u01d1">>, <<"\\u01d3">>, <<"\\u01d5">>,
      <<"\\u01d7">>, <<"\\u01d9">>, <<"\\u01db">>, <<"\\u018e">>,
      <<"\\u01de">>, <<"\\u01e0">>, <<"\\u01e2">>, <<"\\u01e4">>,
      <<"\\u01e6">>, <<"\\u01e8">>, <<"\\u01ea">>, <<"\\u01ec">>,
      <<"\\u01ee">>, <<"J", "\\u030c">>, <<"\\u01f1">>, <<"\\u01f1">>,
      <<"\\u01f4">>, <<"\\u01f8">>, <<"\\u01fa">>, <<"\\u01fc">>,
      <<"\\u01fe">>, <<"\\u0200">>, <<"\\u0202">>, <<"\\u0204">>,
      <<"\\u0206">>, <<"\\u0208">>, <<"\\u020a">>, <<"\\u020c">>,
      <<"\\u020e">>, <<"\\u0210">>, <<"\\u0212">>, <<"\\u0214">>,
      <<"\\u0216">>, <<"\\u0218">>, <<"\\u021a">>, <<"\\u021c">>,
      <<"\\u021e">>, <<"\\u0222">>, <<"\\u0224">>, <<"\\u0226">>,
      <<"\\u0228">>, <<"\\u022a">>, <<"\\u022c">>, <<"\\u022e">>,
      <<"\\u0230">>, <<"\\u0232">>, <<"\\u023b">>, <<"\\u2c7e">>,
      <<"\\u2c7f">>, <<"\\u0241">>, <<"\\u0246">>, <<"\\u0248">>,
      <<"\\u024a">>, <<"\\u024c">>, <<"\\u024e">>, <<"\\u2c6f">>,
      <<"\\u2c6d">>, <<"\\u2c70">>, <<"\\u0181">>, <<"\\u0186">>,
      <<"\\u0189">>, <<"\\u018a">>, <<"\\u018f">>, <<"\\u0190">>,
      <<"\\ua7ab">>, <<"\\u0193">>, <<"\\ua7ac">>, <<"\\u0194">>,
      <<"\\ua78d">>, <<"\\ua7aa">>, <<"\\u0197">>, <<"\\u0196">>,
      <<"\\ua7ae">>, <<"\\u2c62">>, <<"\\ua7ad">>, <<"\\u019c">>,
      <<"\\u2c6e">>, <<"\\u019d">>, <<"\\u019f">>, <<"\\u2c64">>,
      <<"\\u01a6">>, <<"\\ua7c5">>, <<"\\u01a9">>, <<"\\ua7b1">>,
      <<"\\u01ae">>, <<"\\u0244">>, <<"\\u01b1">>, <<"\\u01b2">>,
      <<"\\u0245">>, <<"\\u01b7">>, <<"\\ua7b2">>, <<"\\ua7b0">>,
      <<"\\u0399">>, <<"\\u0370">>, <<"\\u0372">>, <<"\\u0376">>,
      <<"\\u03fd">>, <<"\\u03fe">>, <<"\\u03ff">>,
      <<"\\u0399", "\\u0308", "\\u0301">>, <<"\\u0386">>, <<"\\u0388">>,
      <<"\\u0389">>, <<"\\u038a">>, <<"\\u03a5", "\\u0308", "\\u0301">>,
      <<"\\u0391">>, <<"\\u0392">>, <<"\\u0393">>, <<"\\u0394">>,
      <<"\\u0395">>, <<"\\u0396">>, <<"\\u0397">>, <<"\\u0398">>,
      <<"\\u0399">>, <<"\\u039a">>, <<"\\u039b">>, <<"\\u039c">>,
      <<"\\u039d">>, <<"\\u039e">>, <<"\\u039f">>, <<"\\u03a0">>,
      <<"\\u03a1">>, <<"\\u03a3">>, <<"\\u03a3">>, <<"\\u03a4">>,
      <<"\\u03a5">>, <<"\\u03a6">>, <<"\\u03a7">>, <<"\\u03a8">>,
      <<"\\u03a9">>, <<"\\u03aa">>, <<"\\u03ab">>, <<"\\u038c">>,
      <<"\\u038e">>, <<"\\u038f">>, <<"\\u0392">>, <<"\\u0398">>,
      <<"\\u03a6">>, <<"\\u03a0">>, <<"\\u03cf">>, <<"\\u03d8">>,
      <<"\\u03da">>, <<"\\u03dc">>, <<"\\u03de">>, <<"\\u03e0">>,
      <<"\\u03e2">>, <<"\\u03e4">>, <<"\\u03e6">>, <<"\\u03e8">>,
      <<"\\u03ea">>, <<"\\u03ec">>, <<"\\u03ee">>, <<"\\u039a">>,
      <<"\\u03a1">>, <<"\\u03f9">>, <<"\\u037f">>, <<"\\u0395">>,
      <<"\\u03f7">>, <<"\\u03fa">>, <<"\\u0410">>, <<"\\u0411">>,
      <<"\\u0412">>, <<"\\u0413">>, <<"\\u0414">>, <<"\\u0415">>,
      <<"\\u0416">>, <<"\\u0417">>, <<"\\u0418">>, <<"\\u0419">>,
      <<"\\u041a">>, <<"\\u041b">>, <<"\\u041c">>, <<"\\u041d">>,
      <<"\\u041e">>, <<"\\u041f">>, <<"\\u0420">>, <<"\\u0421">>,
      <<"\\u0422">>, <<"\\u0423">>, <<"\\u0424">>, <<"\\u0425">>,
      <<"\\u0426">>, <<"\\u0427">>, <<"\\u0428">>, <<"\\u0429">>,
      <<"\\u042a">>, <<"\\u042b">>, <<"\\u042c">>, <<"\\u042d">>,
      <<"\\u042e">>, <<"\\u042f">>, <<"\\u0400">>, <<"\\u0401">>,
      <<"\\u0402">>, <<"\\u0403">>, <<"\\u0404">>, <<"\\u0405">>,
      <<"\\u0406">>, <<"\\u0407">>, <<"\\u0408">>, <<"\\u0409">>,
      <<"\\u040a">>, <<"\\u040b">>, <<"\\u040c">>, <<"\\u040d">>,
      <<"\\u040e">>, <<"\\u040f">>, <<"\\u0460">>, <<"\\u0462">>,
      <<"\\u0464">>, <<"\\u0466">>, <<"\\u0468">>, <<"\\u046a">>,
      <<"\\u046c">>, <<"\\u046e">>, <<"\\u0470">>, <<"\\u0472">>,
      <<"\\u0474">>, <<"\\u0476">>, <<"\\u0478">>, <<"\\u047a">>,
      <<"\\u047c">>, <<"\\u047e">>, <<"\\u0480">>, <<"\\u048a">>,
      <<"\\u048c">>, <<"\\u048e">>, <<"\\u0490">>, <<"\\u0492">>,
      <<"\\u0494">>, <<"\\u0496">>, <<"\\u0498">>, <<"\\u049a">>,
      <<"\\u049c">>, <<"\\u049e">>, <<"\\u04a0">>, <<"\\u04a2">>,
      <<"\\u04a4">>, <<"\\u04a6">>, <<"\\u04a8">>, <<"\\u04aa">>,
      <<"\\u04ac">>, <<"\\u04ae">>, <<"\\u04b0">>, <<"\\u04b2">>,
      <<"\\u04b4">>, <<"\\u04b6">>, <<"\\u04b8">>, <<"\\u04ba">>,
      <<"\\u04bc">>, <<"\\u04be">>, <<"\\u04c1">>, <<"\\u04c3">>,
      <<"\\u04c5">>, <<"\\u04c7">>, <<"\\u04c9">>, <<"\\u04cb">>,
      <<"\\u04cd">>, <<"\\u04c0">>, <<"\\u04d0">>, <<"\\u04d2">>,
      <<"\\u04d4">>, <<"\\u04d6">>, <<"\\u04d8">>, <<"\\u04da">>,
      <<"\\u04dc">>, <<"\\u04de">>, <<"\\u04e0">>, <<"\\u04e2">>,
      <<"\\u04e4">>, <<"\\u04e6">>, <<"\\u04e8">>, <<"\\u04ea">>,
      <<"\\u04ec">>, <<"\\u04ee">>, <<"\\u04f0">>, <<"\\u04f2">>,
      <<"\\u04f4">>, <<"\\u04f6">>, <<"\\u04f8">>, <<"\\u04fa">>,
      <<"\\u04fc">>, <<"\\u04fe">>, <<"\\u0500">>, <<"\\u0502">>,
      <<"\\u0504">>, <<"\\u0506">>, <<"\\u0508">>, <<"\\u050a">>,
      <<"\\u050c">>, <<"\\u050e">>, <<"\\u0510">>, <<"\\u0512">>,
      <<"\\u0514">>, <<"\\u0516">>, <<"\\u0518">>, <<"\\u051a">>,
      <<"\\u051c">>, <<"\\u051e">>, <<"\\u0520">>, <<"\\u0522">>,
      <<"\\u0524">>, <<"\\u0526">>, <<"\\u0528">>, <<"\\u052a">>,
      <<"\\u052c">>, <<"\\u052e">>, <<"\\u0531">>, <<"\\u0532">>,
      <<"\\u0533">>, <<"\\u0534">>, <<"\\u0535">>, <<"\\u0536">>,
      <<"\\u0537">>, <<"\\u0538">>, <<"\\u0539">>, <<"\\u053a">>,
      <<"\\u053b">>, <<"\\u053c">>, <<"\\u053d">>, <<"\\u053e">>,
      <<"\\u053f">>, <<"\\u0540">>, <<"\\u0541">>, <<"\\u0542">>,
      <<"\\u0543">>, <<"\\u0544">>, <<"\\u0545">>, <<"\\u0546">>,
      <<"\\u0547">>, <<"\\u0548">>, <<"\\u0549">>, <<"\\u054a">>,
      <<"\\u054b">>, <<"\\u054c">>, <<"\\u054d">>, <<"\\u054e">>,
      <<"\\u054f">>, <<"\\u0550">>, <<"\\u0551">>, <<"\\u0552">>,
      <<"\\u0553">>, <<"\\u0554">>, <<"\\u0555">>, <<"\\u0556">>,
      <<"\\u0535", "\\u0552">>, <<"\\u1c90">>, <<"\\u1c91">>, <<"\\u1c92">>,
      <<"\\u1c93">>, <<"\\u1c94">>, <<"\\u1c95">>, <<"\\u1c96">>,
      <<"\\u1c97">>, <<"\\u1c98">>, <<"\\u1c99">>, <<"\\u1c9a">>,
      <<"\\u1c9b">>, <<"\\u1c9c">>, <<"\\u1c9d">>, <<"\\u1c9e">>,
      <<"\\u1c9f">>, <<"\\u1ca0">>, <<"\\u1ca1">>, <<"\\u1ca2">>,
      <<"\\u1ca3">>, <<"\\u1ca4">>, <<"\\u1ca5">>, <<"\\u1ca6">>,
      <<"\\u1ca7">>, <<"\\u1ca8">>, <<"\\u1ca9">>, <<"\\u1caa">>,
      <<"\\u1cab">>, <<"\\u1cac">>, <<"\\u1cad">>, <<"\\u1cae">>,
      <<"\\u1caf">>, <<"\\u1cb0">>, <<"\\u1cb1">>, <<"\\u1cb2">>,
      <<"\\u1cb3">>, <<"\\u1cb4">>, <<"\\u1cb5">>, <<"\\u1cb6">>,
      <<"\\u1cb7">>, <<"\\u1cb8">>, <<"\\u1cb9">>, <<"\\u1cba">>,
      <<"\\u1cbd">>, <<"\\u1cbe">>, <<"\\u1cbf">>, <<"\\u13f0">>,
      <<"\\u13f1">>, <<"\\u13f2">>, <<"\\u13f3">>, <<"\\u13f4">>,
      <<"\\u13f5">>, <<"\\u0412">>, <<"\\u0414">>, <<"\\u041e">>,
      <<"\\u0421">>, <<"\\u0422">>, <<"\\u0422">>, <<"\\u042a">>,
      <<"\\u0462">>, <<"\\ua64a">>, <<"\\ua77d">>, <<"\\u2c63">>,
      <<"\\ua7c6">>, <<"\\u1e00">>, <<"\\u1e02">>, <<"\\u1e04">>,
      <<"\\u1e06">>, <<"\\u1e08">>, <<"\\u1e0a">>, <<"\\u1e0c">>,
      <<"\\u1e0e">>, <<"\\u1e10">>, <<"\\u1e12">>, <<"\\u1e14">>,
      <<"\\u1e16">>, <<"\\u1e18">>, <<"\\u1e1a">>, <<"\\u1e1c">>,
      <<"\\u1e1e">>, <<"\\u1e20">>, <<"\\u1e22">>, <<"\\u1e24">>,
      <<"\\u1e26">>, <<"\\u1e28">>, <<"\\u1e2a">>, <<"\\u1e2c">>,
      <<"\\u1e2e">>, <<"\\u1e30">>, <<"\\u1e32">>, <<"\\u1e34">>,
      <<"\\u1e36">>, <<"\\u1e38">>, <<"\\u1e3a">>, <<"\\u1e3c">>,
      <<"\\u1e3e">>, <<"\\u1e40">>, <<"\\u1e42">>, <<"\\u1e44">>,
      <<"\\u1e46">>, <<"\\u1e48">>, <<"\\u1e4a">>, <<"\\u1e4c">>,
      <<"\\u1e4e">>, <<"\\u1e50">>, <<"\\u1e52">>, <<"\\u1e54">>,
      <<"\\u1e56">>, <<"\\u1e58">>, <<"\\u1e5a">>, <<"\\u1e5c">>,
      <<"\\u1e5e">>, <<"\\u1e60">>, <<"\\u1e62">>, <<"\\u1e64">>,
      <<"\\u1e66">>, <<"\\u1e68">>, <<"\\u1e6a">>, <<"\\u1e6c">>,
      <<"\\u1e6e">>, <<"\\u1e70">>, <<"\\u1e72">>, <<"\\u1e74">>,
      <<"\\u1e76">>, <<"\\u1e78">>, <<"\\u1e7a">>, <<"\\u1e7c">>,
      <<"\\u1e7e">>, <<"\\u1e80">>, <<"\\u1e82">>, <<"\\u1e84">>,
      <<"\\u1e86">>, <<"\\u1e88">>, <<"\\u1e8a">>, <<"\\u1e8c">>,
      <<"\\u1e8e">>, <<"\\u1e90">>, <<"\\u1e92">>, <<"\\u1e94">>,
      <<"H", "\\u0331">>, <<"T", "\\u0308">>, <<"W", "\\u030a">>,
      <<"Y", "\\u030a">>, <<"A", "\\u02be">>, <<"\\u1e60">>, <<"\\u1ea0">>,
      <<"\\u1ea2">>, <<"\\u1ea4">>, <<"\\u1ea6">>, <<"\\u1ea8">>,
      <<"\\u1eaa">>, <<"\\u1eac">>, <<"\\u1eae">>, <<"\\u1eb0">>,
      <<"\\u1eb2">>, <<"\\u1eb4">>, <<"\\u1eb6">>, <<"\\u1eb8">>,
      <<"\\u1eba">>, <<"\\u1ebc">>, <<"\\u1ebe">>, <<"\\u1ec0">>,
      <<"\\u1ec2">>, <<"\\u1ec4">>, <<"\\u1ec6">>, <<"\\u1ec8">>,
      <<"\\u1eca">>, <<"\\u1ecc">>, <<"\\u1ece">>, <<"\\u1ed0">>,
      <<"\\u1ed2">>, <<"\\u1ed4">>, <<"\\u1ed6">>, <<"\\u1ed8">>,
      <<"\\u1eda">>, <<"\\u1edc">>, <<"\\u1ede">>, <<"\\u1ee0">>,
      <<"\\u1ee2">>, <<"\\u1ee4">>, <<"\\u1ee6">>, <<"\\u1ee8">>,
      <<"\\u1eea">>, <<"\\u1eec">>, <<"\\u1eee">>, <<"\\u1ef0">>,
      <<"\\u1ef2">>, <<"\\u1ef4">>, <<"\\u1ef6">>, <<"\\u1ef8">>,
      <<"\\u1efa">>, <<"\\u1efc">>, <<"\\u1efe">>, <<"\\u1f08">>,
      <<"\\u1f09">>, <<"\\u1f0a">>, <<"\\u1f0b">>, <<"\\u1f0c">>,
      <<"\\u1f0d">>, <<"\\u1f0e">>, <<"\\u1f0f">>, <<"\\u1f18">>,
      <<"\\u1f19">>, <<"\\u1f1a">>, <<"\\u1f1b">>, <<"\\u1f1c">>,
      <<"\\u1f1d">>, <<"\\u1f28">>, <<"\\u1f29">>, <<"\\u1f2a">>,
      <<"\\u1f2b">>, <<"\\u1f2c">>, <<"\\u1f2d">>, <<"\\u1f2e">>,
      <<"\\u1f2f">>, <<"\\u1f38">>, <<"\\u1f39">>, <<"\\u1f3a">>,
      <<"\\u1f3b">>, <<"\\u1f3c">>, <<"\\u1f3d">>, <<"\\u1f3e">>,
      <<"\\u1f3f">>, <<"\\u1f48">>, <<"\\u1f49">>, <<"\\u1f4a">>,
      <<"\\u1f4b">>, <<"\\u1f4c">>, <<"\\u1f4d">>, <<"\\u03a5", "\\u0313">>,
      <<"\\u1f59">>, <<"\\u03a5", "\\u0313", "\\u0300">>, <<"\\u1f5b">>,
      <<"\\u03a5", "\\u0313", "\\u0301">>, <<"\\u1f5d">>,
      <<"\\u03a5", "\\u0313", "\\u0342">>, <<"\\u1f5f">>, <<"\\u1f68">>,
      <<"\\u1f69">>, <<"\\u1f6a">>, <<"\\u1f6b">>, <<"\\u1f6c">>,
      <<"\\u1f6d">>, <<"\\u1f6e">>, <<"\\u1f6f">>, <<"\\u1fba">>,
      <<"\\u1fbb">>, <<"\\u1fc8">>, <<"\\u1fc9">>, <<"\\u1fca">>,
      <<"\\u1fcb">>, <<"\\u1fda">>, <<"\\u1fdb">>, <<"\\u1ff8">>,
      <<"\\u1ff9">>, <<"\\u1fea">>, <<"\\u1feb">>, <<"\\u1ffa">>,
      <<"\\u1ffb">>, <<"\\u1f08", "\\u0399">>, <<"\\u1f09", "\\u0399">>,
      <<"\\u1f0a", "\\u0399">>, <<"\\u1f0b", "\\u0399">>,
      <<"\\u1f0c", "\\u0399">>, <<"\\u1f0d", "\\u0399">>,
      <<"\\u1f0e", "\\u0399">>, <<"\\u1f0f", "\\u0399">>,
      <<"\\u1f08", "\\u0399">>, <<"\\u1f09", "\\u0399">>,
      <<"\\u1f0a", "\\u0399">>, <<"\\u1f0b", "\\u0399">>,
      <<"\\u1f0c", "\\u0399">>, <<"\\u1f0d", "\\u0399">>,
      <<"\\u1f0e", "\\u0399">>, <<"\\u1f0f", "\\u0399">>,
      <<"\\u1f28", "\\u0399">>, <<"\\u1f29", "\\u0399">>,
      <<"\\u1f2a", "\\u0399">>, <<"\\u1f2b", "\\u0399">>,
      <<"\\u1f2c", "\\u0399">>, <<"\\u1f2d", "\\u0399">>,
      <<"\\u1f2e", "\\u0399">>, <<"\\u1f2f", "\\u0399">>,
      <<"\\u1f28", "\\u0399">>, <<"\\u1f29", "\\u0399">>,
      <<"\\u1f2a", "\\u0399">>, <<"\\u1f2b", "\\u0399">>,
      <<"\\u1f2c", "\\u0399">>, <<"\\u1f2d", "\\u0399">>,
      <<"\\u1f2e", "\\u0399">>, <<"\\u1f2f", "\\u0399">>,
      <<"\\u1f68", "\\u0399">>, <<"\\u1f69", "\\u0399">>,
      <<"\\u1f6a", "\\u0399">>, <<"\\u1f6b", "\\u0399">>,
      <<"\\u1f6c", "\\u0399">>, <<"\\u1f6d", "\\u0399">>,
      <<"\\u1f6e", "\\u0399">>, <<"\\u1f6f", "\\u0399">>,
      <<"\\u1f68", "\\u0399">>, <<"\\u1f69", "\\u0399">>,
      <<"\\u1f6a", "\\u0399">>, <<"\\u1f6b", "\\u0399">>,
      <<"\\u1f6c", "\\u0399">>, <<"\\u1f6d", "\\u0399">>,
      <<"\\u1f6e", "\\u0399">>, <<"\\u1f6f", "\\u0399">>, <<"\\u1fb8">>,
      <<"\\u1fb9">>, <<"\\u1fba", "\\u0399">>, <<"\\u0391", "\\u0399">>,
      <<"\\u0386", "\\u0399">>, <<"\\u0391", "\\u0342">>,
      <<"\\u0391", "\\u0342", "\\u0399">>, <<"\\u0391", "\\u0399">>,
      <<"\\u0399">>, <<"\\u1fca", "\\u0399">>, <<"\\u0397", "\\u0399">>,
      <<"\\u0389", "\\u0399">>, <<"\\u0397", "\\u0342">>,
      <<"\\u0397", "\\u0342", "\\u0399">>, <<"\\u0397", "\\u0399">>,
      <<"\\u1fd8">>, <<"\\u1fd9">>, <<"\\u0399", "\\u0308", "\\u0300">>,
      <<"\\u0399", "\\u0308", "\\u0301">>, <<"\\u0399", "\\u0342">>,
      <<"\\u0399", "\\u0308", "\\u0342">>, <<"\\u1fe8">>, <<"\\u1fe9">>,
      <<"\\u03a5", "\\u0308", "\\u0300">>,
      <<"\\u03a5", "\\u0308", "\\u0301">>, <<"\\u03a1", "\\u0313">>,
      <<"\\u1fec">>, <<"\\u03a5", "\\u0342">>,
      <<"\\u03a5", "\\u0308", "\\u0342">>, <<"\\u1ffa", "\\u0399">>,
      <<"\\u03a9", "\\u0399">>, <<"\\u038f", "\\u0399">>,
      <<"\\u03a9", "\\u0342">>, <<"\\u03a9", "\\u0342", "\\u0399">>,
      <<"\\u03a9", "\\u0399">>, <<"\\u2132">>, <<"\\u2160">>, <<"\\u2161">>,
      <<"\\u2162">>, <<"\\u2163">>, <<"\\u2164">>, <<"\\u2165">>,
      <<"\\u2166">>, <<"\\u2167">>, <<"\\u2168">>, <<"\\u2169">>,
      <<"\\u216a">>, <<"\\u216b">>, <<"\\u216c">>, <<"\\u216d">>,
      <<"\\u216e">>, <<"\\u216f">>, <<"\\u2183">>, <<"\\u24b6">>,
      <<"\\u24b7">>, <<"\\u24b8">>, <<"\\u24b9">>, <<"\\u24ba">>,
      <<"\\u24bb">>, <<"\\u24bc">>, <<"\\u24bd">>, <<"\\u24be">>,
      <<"\\u24bf">>, <<"\\u24c0">>, <<"\\u24c1">>, <<"\\u24c2">>,
      <<"\\u24c3">>, <<"\\u24c4">>, <<"\\u24c5">>, <<"\\u24c6">>,
      <<"\\u24c7">>, <<"\\u24c8">>, <<"\\u24c9">>, <<"\\u24ca">>,
      <<"\\u24cb">>, <<"\\u24cc">>, <<"\\u24cd">>, <<"\\u24ce">>,
      <<"\\u24cf">>, <<"\\u2c00">>, <<"\\u2c01">>, <<"\\u2c02">>,
      <<"\\u2c03">>, <<"\\u2c04">>, <<"\\u2c05">>, <<"\\u2c06">>,
      <<"\\u2c07">>, <<"\\u2c08">>, <<"\\u2c09">>, <<"\\u2c0a">>,
      <<"\\u2c0b">>, <<"\\u2c0c">>, <<"\\u2c0d">>, <<"\\u2c0e">>,
      <<"\\u2c0f">>, <<"\\u2c10">>, <<"\\u2c11">>, <<"\\u2c12">>,
      <<"\\u2c13">>, <<"\\u2c14">>, <<"\\u2c15">>, <<"\\u2c16">>,
      <<"\\u2c17">>, <<"\\u2c18">>, <<"\\u2c19">>, <<"\\u2c1a">>,
      <<"\\u2c1b">>, <<"\\u2c1c">>, <<"\\u2c1d">>, <<"\\u2c1e">>,
      <<"\\u2c1f">>, <<"\\u2c20">>, <<"\\u2c21">>, <<"\\u2c22">>,
      <<"\\u2c23">>, <<"\\u2c24">>, <<"\\u2c25">>, <<"\\u2c26">>,
      <<"\\u2c27">>, <<"\\u2c28">>, <<"\\u2c29">>, <<"\\u2c2a">>,
      <<"\\u2c2b">>, <<"\\u2c2c">>, <<"\\u2c2d">>, <<"\\u2c2e">>,
      <<"\\u2c2f">>, <<"\\u2c60">>, <<"\\u023a">>, <<"\\u023e">>,
      <<"\\u2c67">>, <<"\\u2c69">>, <<"\\u2c6b">>, <<"\\u2c72">>,
      <<"\\u2c75">>, <<"\\u2c80">>, <<"\\u2c82">>, <<"\\u2c84">>,
      <<"\\u2c86">>, <<"\\u2c88">>, <<"\\u2c8a">>, <<"\\u2c8c">>,
      <<"\\u2c8e">>, <<"\\u2c90">>, <<"\\u2c92">>, <<"\\u2c94">>,
      <<"\\u2c96">>, <<"\\u2c98">>, <<"\\u2c9a">>, <<"\\u2c9c">>,
      <<"\\u2c9e">>, <<"\\u2ca0">>, <<"\\u2ca2">>, <<"\\u2ca4">>,
      <<"\\u2ca6">>, <<"\\u2ca8">>, <<"\\u2caa">>, <<"\\u2cac">>,
      <<"\\u2cae">>, <<"\\u2cb0">>, <<"\\u2cb2">>, <<"\\u2cb4">>,
      <<"\\u2cb6">>, <<"\\u2cb8">>, <<"\\u2cba">>, <<"\\u2cbc">>,
      <<"\\u2cbe">>, <<"\\u2cc0">>, <<"\\u2cc2">>, <<"\\u2cc4">>,
      <<"\\u2cc6">>, <<"\\u2cc8">>, <<"\\u2cca">>, <<"\\u2ccc">>,
      <<"\\u2cce">>, <<"\\u2cd0">>, <<"\\u2cd2">>, <<"\\u2cd4">>,
      <<"\\u2cd6">>, <<"\\u2cd8">>, <<"\\u2cda">>, <<"\\u2cdc">>,
      <<"\\u2cde">>, <<"\\u2ce0">>, <<"\\u2ce2">>, <<"\\u2ceb">>,
      <<"\\u2ced">>, <<"\\u2cf2">>, <<"\\u10a0">>, <<"\\u10a1">>,
      <<"\\u10a2">>, <<"\\u10a3">>, <<"\\u10a4">>, <<"\\u10a5">>,
      <<"\\u10a6">>, <<"\\u10a7">>, <<"\\u10a8">>, <<"\\u10a9">>,
      <<"\\u10aa">>, <<"\\u10ab">>, <<"\\u10ac">>, <<"\\u10ad">>,
      <<"\\u10ae">>, <<"\\u10af">>, <<"\\u10b0">>, <<"\\u10b1">>,
      <<"\\u10b2">>, <<"\\u10b3">>, <<"\\u10b4">>, <<"\\u10b5">>,
      <<"\\u10b6">>, <<"\\u10b7">>, <<"\\u10b8">>, <<"\\u10b9">>,
      <<"\\u10ba">>, <<"\\u10bb">>, <<"\\u10bc">>, <<"\\u10bd">>,
      <<"\\u10be">>, <<"\\u10bf">>, <<"\\u10c0">>, <<"\\u10c1">>,
      <<"\\u10c2">>, <<"\\u10c3">>, <<"\\u10c4">>, <<"\\u10c5">>,
      <<"\\u10c7">>, <<"\\u10cd">>, <<"\\ua640">>, <<"\\ua642">>,
      <<"\\ua644">>, <<"\\ua646">>, <<"\\ua648">>, <<"\\ua64a">>,
      <<"\\ua64c">>, <<"\\ua64e">>, <<"\\ua650">>, <<"\\ua652">>,
      <<"\\ua654">>, <<"\\ua656">>, <<"\\ua658">>, <<"\\ua65a">>,
      <<"\\ua65c">>, <<"\\ua65e">>, <<"\\ua660">>, <<"\\ua662">>,
      <<"\\ua664">>, <<"\\ua666">>, <<"\\ua668">>, <<"\\ua66a">>,
      <<"\\ua66c">>, <<"\\ua680">>, <<"\\ua682">>, <<"\\ua684">>,
      <<"\\ua686">>, <<"\\ua688">>, <<"\\ua68a">>, <<"\\ua68c">>,
      <<"\\ua68e">>, <<"\\ua690">>, <<"\\ua692">>, <<"\\ua694">>,
      <<"\\ua696">>, <<"\\ua698">>, <<"\\ua69a">>, <<"\\ua722">>,
      <<"\\ua724">>, <<"\\ua726">>, <<"\\ua728">>, <<"\\ua72a">>,
      <<"\\ua72c">>, <<"\\ua72e">>, <<"\\ua732">>, <<"\\ua734">>,
      <<"\\ua736">>, <<"\\ua738">>, <<"\\ua73a">>, <<"\\ua73c">>,
      <<"\\ua73e">>, <<"\\ua740">>, <<"\\ua742">>, <<"\\ua744">>,
      <<"\\ua746">>, <<"\\ua748">>, <<"\\ua74a">>, <<"\\ua74c">>,
      <<"\\ua74e">>, <<"\\ua750">>, <<"\\ua752">>, <<"\\ua754">>,
      <<"\\ua756">>, <<"\\ua758">>, <<"\\ua75a">>, <<"\\ua75c">>,
      <<"\\ua75e">>, <<"\\ua760">>, <<"\\ua762">>, <<"\\ua764">>,
      <<"\\ua766">>, <<"\\ua768">>, <<"\\ua76a">>, <<"\\ua76c">>,
      <<"\\ua76e">>, <<"\\ua779">>, <<"\\ua77b">>, <<"\\ua77e">>,
      <<"\\ua780">>, <<"\\ua782">>, <<"\\ua784">>, <<"\\ua786">>,
      <<"\\ua78b">>, <<"\\ua790">>, <<"\\ua792">>, <<"\\ua7c4">>,
      <<"\\ua796">>, <<"\\ua798">>, <<"\\ua79a">>, <<"\\ua79c">>,
      <<"\\ua79e">>, <<"\\ua7a0">>, <<"\\ua7a2">>, <<"\\ua7a4">>,
      <<"\\ua7a6">>, <<"\\ua7a8">>, <<"\\ua7b4">>, <<"\\ua7b6">>,
      <<"\\ua7b8">>, <<"\\ua7ba">>, <<"\\ua7bc">>, <<"\\ua7be">>,
      <<"\\ua7c0">>, <<"\\ua7c2">>, <<"\\ua7c7">>, <<"\\ua7c9">>,
      <<"\\ua7d0">>, <<"\\ua7d6">>, <<"\\ua7d8">>, <<"\\ua7f5">>,
      <<"\\ua7b3">>, <<"\\u13a0">>, <<"\\u13a1">>, <<"\\u13a2">>,
      <<"\\u13a3">>, <<"\\u13a4">>, <<"\\u13a5">>, <<"\\u13a6">>,
      <<"\\u13a7">>, <<"\\u13a8">>, <<"\\u13a9">>, <<"\\u13aa">>,
      <<"\\u13ab">>, <<"\\u13ac">>, <<"\\u13ad">>, <<"\\u13ae">>,
      <<"\\u13af">>, <<"\\u13b0">>, <<"\\u13b1">>, <<"\\u13b2">>,
      <<"\\u13b3">>, <<"\\u13b4">>, <<"\\u13b5">>, <<"\\u13b6">>,
      <<"\\u13b7">>, <<"\\u13b8">>, <<"\\u13b9">>, <<"\\u13ba">>,
      <<"\\u13bb">>, <<"\\u13bc">>, <<"\\u13bd">>, <<"\\u13be">>,
      <<"\\u13bf">>, <<"\\u13c0">>, <<"\\u13c1">>, <<"\\u13c2">>,
      <<"\\u13c3">>, <<"\\u13c4">>, <<"\\u13c5">>, <<"\\u13c6">>,
      <<"\\u13c7">>, <<"\\u13c8">>, <<"\\u13c9">>, <<"\\u13ca">>,
      <<"\\u13cb">>, <<"\\u13cc">>, <<"\\u13cd">>, <<"\\u13ce">>,
      <<"\\u13cf">>, <<"\\u13d0">>, <<"\\u13d1">>, <<"\\u13d2">>,
      <<"\\u13d3">>, <<"\\u13d4">>, <<"\\u13d5">>, <<"\\u13d6">>,
      <<"\\u13d7">>, <<"\\u13d8">>, <<"\\u13d9">>, <<"\\u13da">>,
      <<"\\u13db">>, <<"\\u13dc">>, <<"\\u13dd">>, <<"\\u13de">>,
      <<"\\u13df">>, <<"\\u13e0">>, <<"\\u13e1">>, <<"\\u13e2">>,
      <<"\\u13e3">>, <<"\\u13e4">>, <<"\\u13e5">>, <<"\\u13e6">>,
      <<"\\u13e7">>, <<"\\u13e8">>, <<"\\u13e9">>, <<"\\u13ea">>,
      <<"\\u13eb">>, <<"\\u13ec">>, <<"\\u13ed">>, <<"\\u13ee">>,
      <<"\\u13ef">>, <<"F", "F">>, <<"F", "I">>, <<"F", "L">>,
      <<"F", "F", "I">>, <<"F", "F", "L">>, <<"S", "T">>, <<"S", "T">>,
      <<"\\u0544", "\\u0546">>, <<"\\u0544", "\\u0535">>,
      <<"\\u0544", "\\u053b">>, <<"\\u054e", "\\u0546">>,
      <<"\\u0544", "\\u053d">>, <<"\\uff21">>, <<"\\uff22">>, <<"\\uff23">>,
      <<"\\uff24">>, <<"\\uff25">>, <<"\\uff26">>, <<"\\uff27">>,
      <<"\\uff28">>, <<"\\uff29">>, <<"\\uff2a">>, <<"\\uff2b">>,
      <<"\\uff2c">>, <<"\\uff2d">>, <<"\\uff2e">>, <<"\\uff2f">>,
      <<"\\uff30">>, <<"\\uff31">>, <<"\\uff32">>, <<"\\uff33">>,
      <<"\\uff34">>, <<"\\uff35">>, <<"\\uff36">>, <<"\\uff37">>,
      <<"\\uff38">>, <<"\\uff39">>, <<"\\uff3a">>, <<"\\ud801\\udc00">>,
      <<"\\ud801\\udc01">>, <<"\\ud801\\udc02">>, <<"\\ud801\\udc03">>,
      <<"\\ud801\\udc04">>, <<"\\ud801\\udc05">>, <<"\\ud801\\udc06">>,
      <<"\\ud801\\udc07">>, <<"\\ud801\\udc08">>, <<"\\ud801\\udc09">>,
      <<"\\ud801\\udc0a">>, <<"\\ud801\\udc0b">>, <<"\\ud801\\udc0c">>,
      <<"\\ud801\\udc0d">>, <<"\\ud801\\udc0e">>, <<"\\ud801\\udc0f">>,
      <<"\\ud801\\udc10">>, <<"\\ud801\\udc11">>, <<"\\ud801\\udc12">>,
      <<"\\ud801\\udc13">>, <<"\\ud801\\udc14">>, <<"\\ud801\\udc15">>,
      <<"\\ud801\\udc16">>, <<"\\ud801\\udc17">>, <<"\\ud801\\udc18">>,
      <<"\\ud801\\udc19">>, <<"\\ud801\\udc1a">>, <<"\\ud801\\udc1b">>,
      <<"\\ud801\\udc1c">>, <<"\\ud801\\udc1d">>, <<"\\ud801\\udc1e">>,
      <<"\\ud801\\udc1f">>, <<"\\ud801\\udc20">>, <<"\\ud801\\udc21">>,
      <<"\\ud801\\udc22">>, <<"\\ud801\\udc23">>, <<"\\ud801\\udc24">>,
      <<"\\ud801\\udc25">>, <<"\\ud801\\udc26">>, <<"\\ud801\\udc27">>,
      <<"\\ud801\\udcb0">>, <<"\\ud801\\udcb1">>, <<"\\ud801\\udcb2">>,
      <<"\\ud801\\udcb3">>, <<"\\ud801\\udcb4">>, <<"\\ud801\\udcb5">>,
      <<"\\ud801\\udcb6">>, <<"\\ud801\\udcb7">>, <<"\\ud801\\udcb8">>,
      <<"\\ud801\\udcb9">>, <<"\\ud801\\udcba">>, <<"\\ud801\\udcbb">>,
      <<"\\ud801\\udcbc">>, <<"\\ud801\\udcbd">>, <<"\\ud801\\udcbe">>,
      <<"\\ud801\\udcbf">>, <<"\\ud801\\udcc0">>, <<"\\ud801\\udcc1">>,
      <<"\\ud801\\udcc2">>, <<"\\ud801\\udcc3">>, <<"\\ud801\\udcc4">>,
      <<"\\ud801\\udcc5">>, <<"\\ud801\\udcc6">>, <<"\\ud801\\udcc7">>,
      <<"\\ud801\\udcc8">>, <<"\\ud801\\udcc9">>, <<"\\ud801\\udcca">>,
      <<"\\ud801\\udccb">>, <<"\\ud801\\udccc">>, <<"\\ud801\\udccd">>,
      <<"\\ud801\\udcce">>, <<"\\ud801\\udccf">>, <<"\\ud801\\udcd0">>,
      <<"\\ud801\\udcd1">>, <<"\\ud801\\udcd2">>, <<"\\ud801\\udcd3">>,
      <<"\\ud801\\udd70">>, <<"\\ud801\\udd71">>, <<"\\ud801\\udd72">>,
      <<"\\ud801\\udd73">>, <<"\\ud801\\udd74">>, <<"\\ud801\\udd75">>,
      <<"\\ud801\\udd76">>, <<"\\ud801\\udd77">>, <<"\\ud801\\udd78">>,
      <<"\\ud801\\udd79">>, <<"\\ud801\\udd7a">>, <<"\\ud801\\udd7c">>,
      <<"\\ud801\\udd7d">>, <<"\\ud801\\udd7e">>, <<"\\ud801\\udd7f">>,
      <<"\\ud801\\udd80">>, <<"\\ud801\\udd81">>, <<"\\ud801\\udd82">>,
      <<"\\ud801\\udd83">>, <<"\\ud801\\udd84">>, <<"\\ud801\\udd85">>,
      <<"\\ud801\\udd86">>, <<"\\ud801\\udd87">>, <<"\\ud801\\udd88">>,
      <<"\\ud801\\udd89">>, <<"\\ud801\\udd8a">>, <<"\\ud801\\udd8c">>,
      <<"\\ud801\\udd8d">>, <<"\\ud801\\udd8e">>, <<"\\ud801\\udd8f">>,
      <<"\\ud801\\udd90">>, <<"\\ud801\\udd91">>, <<"\\ud801\\udd92">>,
      <<"\\ud801\\udd94">>, <<"\\ud801\\udd95">>, <<"\\ud803\\udc80">>,
      <<"\\ud803\\udc81">>, <<"\\ud803\\udc82">>, <<"\\ud803\\udc83">>,
      <<"\\ud803\\udc84">>, <<"\\ud803\\udc85">>, <<"\\ud803\\udc86">>,
      <<"\\ud803\\udc87">>, <<"\\ud803\\udc88">>, <<"\\ud803\\udc89">>,
      <<"\\ud803\\udc8a">>, <<"\\ud803\\udc8b">>, <<"\\ud803\\udc8c">>,
      <<"\\ud803\\udc8d">>, <<"\\ud803\\udc8e">>, <<"\\ud803\\udc8f">>,
      <<"\\ud803\\udc90">>, <<"\\ud803\\udc91">>, <<"\\ud803\\udc92">>,
      <<"\\ud803\\udc93">>, <<"\\ud803\\udc94">>, <<"\\ud803\\udc95">>,
      <<"\\ud803\\udc96">>, <<"\\ud803\\udc97">>, <<"\\ud803\\udc98">>,
      <<"\\ud803\\udc99">>, <<"\\ud803\\udc9a">>, <<"\\ud803\\udc9b">>,
      <<"\\ud803\\udc9c">>, <<"\\ud803\\udc9d">>, <<"\\ud803\\udc9e">>,
      <<"\\ud803\\udc9f">>, <<"\\ud803\\udca0">>, <<"\\ud803\\udca1">>,
      <<"\\ud803\\udca2">>, <<"\\ud803\\udca3">>, <<"\\ud803\\udca4">>,
      <<"\\ud803\\udca5">>, <<"\\ud803\\udca6">>, <<"\\ud803\\udca7">>,
      <<"\\ud803\\udca8">>, <<"\\ud803\\udca9">>, <<"\\ud803\\udcaa">>,
      <<"\\ud803\\udcab">>, <<"\\ud803\\udcac">>, <<"\\ud803\\udcad">>,
      <<"\\ud803\\udcae">>, <<"\\ud803\\udcaf">>, <<"\\ud803\\udcb0">>,
      <<"\\ud803\\udcb1">>, <<"\\ud803\\udcb2">>, <<"\\ud806\\udca0">>,
      <<"\\ud806\\udca1">>, <<"\\ud806\\udca2">>, <<"\\ud806\\udca3">>,
      <<"\\ud806\\udca4">>, <<"\\ud806\\udca5">>, <<"\\ud806\\udca6">>,
      <<"\\ud806\\udca7">>, <<"\\ud806\\udca8">>, <<"\\ud806\\udca9">>,
      <<"\\ud806\\udcaa">>, <<"\\ud806\\udcab">>, <<"\\ud806\\udcac">>,
      <<"\\ud806\\udcad">>, <<"\\ud806\\udcae">>, <<"\\ud806\\udcaf">>,
      <<"\\ud806\\udcb0">>, <<"\\ud806\\udcb1">>, <<"\\ud806\\udcb2">>,
      <<"\\ud806\\udcb3">>, <<"\\ud806\\udcb4">>, <<"\\ud806\\udcb5">>,
      <<"\\ud806\\udcb6">>, <<"\\ud806\\udcb7">>, <<"\\ud806\\udcb8">>,
      <<"\\ud806\\udcb9">>, <<"\\ud806\\udcba">>, <<"\\ud806\\udcbb">>,
      <<"\\ud806\\udcbc">>, <<"\\ud806\\udcbd">>, <<"\\ud806\\udcbe">>,
      <<"\\ud806\\udcbf">>, <<"\\ud81b\\ude40">>, <<"\\ud81b\\ude41">>,
      <<"\\ud81b\\ude42">>, <<"\\ud81b\\ude43">>, <<"\\ud81b\\ude44">>,
      <<"\\ud81b\\ude45">>, <<"\\ud81b\\ude46">>, <<"\\ud81b\\ude47">>,
      <<"\\ud81b\\ude48">>, <<"\\ud81b\\ude49">>, <<"\\ud81b\\ude4a">>,
      <<"\\ud81b\\ude4b">>, <<"\\ud81b\\ude4c">>, <<"\\ud81b\\ude4d">>,
      <<"\\ud81b\\ude4e">>, <<"\\ud81b\\ude4f">>, <<"\\ud81b\\ude50">>,
      <<"\\ud81b\\ude51">>, <<"\\ud81b\\ude52">>, <<"\\ud81b\\ude53">>,
      <<"\\ud81b\\ude54">>, <<"\\ud81b\\ude55">>, <<"\\ud81b\\ude56">>,
      <<"\\ud81b\\ude57">>, <<"\\ud81b\\ude58">>, <<"\\ud81b\\ude59">>,
      <<"\\ud81b\\ude5a">>, <<"\\ud81b\\ude5b">>, <<"\\ud81b\\ude5c">>,
      <<"\\ud81b\\ude5d">>, <<"\\ud81b\\ude5e">>, <<"\\ud81b\\ude5f">>,
      <<"\\ud83a\\udd00">>, <<"\\ud83a\\udd01">>, <<"\\ud83a\\udd02">>,
      <<"\\ud83a\\udd03">>, <<"\\ud83a\\udd04">>, <<"\\ud83a\\udd05">>,
      <<"\\ud83a\\udd06">>, <<"\\ud83a\\udd07">>, <<"\\ud83a\\udd08">>,
      <<"\\ud83a\\udd09">>, <<"\\ud83a\\udd0a">>, <<"\\ud83a\\udd0b">>,
      <<"\\ud83a\\udd0c">>, <<"\\ud83a\\udd0d">>, <<"\\ud83a\\udd0e">>,
      <<"\\ud83a\\udd0f">>, <<"\\ud83a\\udd10">>, <<"\\ud83a\\udd11">>,
      <<"\\ud83a\\udd12">>, <<"\\ud83a\\udd13">>, <<"\\ud83a\\udd14">>,
      <<"\\ud83a\\udd15">>, <<"\\ud83a\\udd16">>, <<"\\ud83a\\udd17">>,
      <<"\\ud83a\\udd18">>, <<"\\ud83a\\udd19">>, <<"\\ud83a\\udd1a">>,
      <<"\\ud83a\\udd1b">>, <<"\\ud83a\\udd1c">>, <<"\\ud83a\\udd1d">>,
      <<"\\ud83a\\udd1e">>, <<"\\ud83a\\udd1f">>, <<"\\ud83a\\udd20">>,
      <<"\\ud83a\\udd21">>>>

upper_char(c) ==
    IF \E n \in DOMAIN SmallCase : SmallCase[n] = c
    THEN CapitalCase[CHOOSE n \in DOMAIN SmallCase : SmallCase[n] = c]
    ELSE <<c>>

\* str.upper()
RECURSIVE upper(_)
upper(s) == IF s = <<>> THEN <<>> ELSE upper_char(Head(s)) \o upper(Tail(s))

RECURSIVE DecimalValue(_)
DecimalValue(u) ==
    IF u = <<>> THEN 0
    ELSE IF u[Len(u)] = "_" THEN DecimalValue(SubSeq(u, 1, Len(u) - 1))
    ELSE 10 * DecimalValue(SubSeq(u, 1, Len(u) - 1)) + DigitVal(u[Len(u)])

\* int(s): surrounding whitespace, an optional sign, digits with single
\* underscores between them; anything else is a ValueError (ok = FALSE)
int(s) ==
    LET t == strip_chars(s, IntWhitespace)
        signed == t # <<>> /\ Head(t) \in {"+", "-"}
        u == IF signed THEN Tail(t) ELSE t
        wellFormed ==
            /\ u # <<>>
            /\ IsDigit(u[1])
            /\ IsDigit(u[Len(u)])
            /\ \A i \in 1..Len(u) : IsDigit(u[i]) \/ u[i] = "_"
            /\ \A i \in 1..(Len(u) - 1) : ~(u[i] = "_" /\ u[i + 1] = "_")
    IN  IF wellFormed
        THEN [ok |-> TRUE,
              val |-> IF signed /\ Head(t) = "-"
                      THEN 0 - DecimalValue(u) ELSE DecimalValue(u)]
        ELSE [ok |-> FALSE, val |-> 0]

(***************************************************************************)
(* BaseGenerator: the date helpers                                         *)
(***************************************************************************)
months == <<"Jan", "Feb", "Mar", "Apr", "May", "Jun",
            "Jul", "Aug", "Sep", "Oct", "Nov", "Dec">>

\* the month table read one place too far
FormatDateShifted(date_str) ==
    IF ~Truthy(date_str) THEN <<>>
    ELSE LET parts == split(date_str, "-")
         IN  IF Len(parts) >= 2
             THEN LET m == int(parts[2])
                  IN  IF m.ok /\ 0 <= m.val /\ m.val < 12
                      THEN <<months[m.val + 1], " ">> \o parts[1]
                      ELSE date_str
             ELSE date_str

_format_date(date_str) ==
    IF ~Truthy(date_str) THEN <<>>
    ELSE LET parts == split(date_str, "-")
         IN  IF Len(parts) >= 2
             THEN LET year == parts[1]
                      month == int(parts[2])
                      month_idx == month.val - 1
                  IN  IF month.ok /\ 0 <= month_idx /\ month_idx < 12
                      THEN <<months[month_idx + 1], " ">> \o year
                      ELSE date_str
             ELSE date_str

\* the open-ended and the until case exchanged
FormatDateRangeSwapped(start, end) ==
    IF ~Truthy(start) /\ ~Truthy(end) THEN <<>>
    ELSE IF Truthy(start) /\ ~Truthy(end)
         THEN <<"Until ">> \o _format_date(start)
    ELSE IF ~Truthy(start) /\ Truthy(end)
         THEN _format_date(end) \o <<" - Present">>
    ELSE _format_date(start) \o <<" - ">> \o _format_date(end)

format_date_range(start, end) ==
    IF ~Truthy(start) /\ ~Truthy(end) THEN <<>>
    ELSE IF Truthy(start) /\ ~Truthy(end)
         THEN _format_date(start) \o <<" - Present">>
    ELSE IF ~Truthy(start) /\ Truthy(end)
         THEN <<"Until ">> \o _format_date(end)
    ELSE _format_date(start) \o <<" - ">> \o _format_date(end)

(***************************************************************************)
(* Python string building                                                  *)
(***************************************************************************)
\* f"{x}": None is formatted as the text None
fstr(x) == IF x = None THEN <<"None">> ELSE x

\* sep.join(parts)
RECURSIVE join(_, _)
join(sep, parts) ==
    IF Len(parts) = 0 THEN <<>>
    ELSE IF Len(parts) = 1 THEN parts[1]
    ELSE parts[1] \o <<sep>> \o join(sep, Tail(parts))

\* [p for p in parts if p]
RECURSIVE truthy_only(_)
truthy_only(parts) ==
    IF Len(parts) = 0 THEN <<>>
    ELSE IF Truthy(parts[1]) THEN <<parts[1]>> \o truthy_only(Tail(parts))
    ELSE truthy_only(Tail(parts))

\* the concatenation of a sequence of block sequences (list.extend in a loop)
RECURSIVE Flatten(_)
Flatten(seqs) ==
    IF Len(seqs) = 0 THEN <<>> ELSE seqs[1] \o Flatten(Tail(seqs))

\* a one-element list if cond else nothing (an "if cond: append" statement)
When(cond, block) == IF cond THEN <<block>> ELSE <<>>

\* U+2022 and a space, the prefix of a highlight
Bullet == "\\u2022 "

(***************************************************************************)
(* Theme tables                                                            *)
(***************************************************************************)
PresetNames == {"professional", "modern", "elegant", "minimal"}

PDF_STYLES ==
    [professional |->
        [primary_color |-> "#2c3e50", secondary_color |-> "#7f8c8d",
         accent_color |-> "#3498db", font_name |-> "LiberationSans",
         font_name_bold |-> "LiberationSans-Bold"],
     modern |->
        [primary_color |-> "#1a1a2e", secondary_color |-> "#4a4a4a",
         accent_color |-> "#e94560", font_name |-> "LiberationSans",
         font_name_bold |-> "LiberationSans-Bold"],
     elegant |->
        [primary_color |-> "#2d3436", secondary_color |-> "#636e72",
         accent_color |-> "#6c5ce7", font_name |-> "LiberationSerif",
         font_name_bold |-> "LiberationSerif-Bold"],
     minimal |->
        [primary_color |-> "#000000", secondary_color |-> "#555555",
         accent_color |-> "#000000", font_name |-> "LiberationSans",
         font_name_bold |-> "LiberationSans-Bold"]]

\* python-docx themes have no bold font name; the field is kept empty so
\* that the themes of both renderers are records of one shape
DOCX_STYLES ==
    [professional |->
        [primary_color |-> "#2c3e50", secondary_color |-> "#7f8c8d",
         accent_color |-> "#3498db", font_name |-> "Calibri",
         font_name_bold |-> ""],
     modern |->
        [primary_color |-> "#1a1a2e", secondary_color |-> "#4a4a4a",
         accent_color |-> "#e94560", font_name |-> "Arial",
         font_name_bold |-> ""],
     elegant |->
        [primary_color |-> "#2d3436", secondary_color |-> "#636e72",
         accent_color |-> "#6c5ce7", font_name |-> "Times New Roman",
         font_name_bold |-> ""],
     minimal |->
        [primary_color |-> "#000000", secondary_color |-> "#555555",
         accent_color |-> "#000000", font_name |-> "Calibri",
         font_name_bold |-> ""]]

STYLES(fmt) == IF fmt = "pdf" THEN PDF_STYLES ELSE DOCX_STYLES

\* a lookup whose default is the wrong preset
ThemeDefaultMinimal(fmt, style) ==
    IF style \in DOMAIN STYLES(fmt)
    THEN STYLES(fmt)[style]
    ELSE STYLES(fmt)["minimal"]

\* self.STYLES.get(style, self.STYLES["professional"])
theme_for(fmt, style) ==
    IF style \in DOMAIN STYLES(fmt)
    THEN STYLES(fmt)[style]
    ELSE STYLES(fmt)["professional"]

(***************************************************************************)
(* Blocks: what a renderer hands to its output library                     *)
(*   Paragraph   reportlab Paragraph(text, style): text is parsed as markup*)
(*   Spacer      reportlab Spacer(1, size)                                 *)
(*   HRFlowable  the divider after the header                              *)
(*   paragraph   python-docx paragraph; runs carry plain text              *)
(* sec and entry record the section and the index of the list entry the    *)
(* block was built for (0: the heading and what is built once per section).*)
(***************************************************************************)
Paragraph(text, style, sec, entry) ==
    [kind |-> "Paragraph", style |-> style, size |-> 0, text |-> text,
     runs |-> <<>>, sec |-> sec, entry |-> entry]

Spacer(size, sec, entry) ==
    [kind |-> "Spacer", style |-> "", size |-> size, text |-> <<>>,
     runs |-> <<>>, sec |-> sec, entry |-> entry]

\* PDFGenerator._section_divider
_section_divider(sec) ==
    [kind |-> "HRFlowable", style |-> "secondary_color", size |-> 1,
     text |-> <<>>, runs |-> <<>>, sec |-> sec, entry |-> 0]

(***************************************************************************)
(* PDFGenerator: the section builders                                      *)
(***************************************************************************)
PDF_contact_parts(basics) ==
    LET loc_parts ==
            IF Len(basics.location) = 0 THEN <<>>
            ELSE LET loc == basics.location[1]
                 IN  truthy_only(<<loc.city, loc.region, loc.countryCode>>)
    IN  truthy_only(<<basics.email, basics.phone, basics.url>>)
            \o When(Len(loc_parts) > 0, join(", ", loc_parts))

\* the explicit URL preferred to network and username
ProfilePartUrlFirst(profile) ==
    IF Truthy(profile.url) THEN <<profile.url>>
    ELSE IF Truthy(profile.network) /\ Truthy(profile.username)
    THEN <<fstr(profile.network) \o <<": ">> \o fstr(profile.username)>>
    ELSE <<>>

profile_part(profile) ==
    IF Truthy(profile.network) /\ Truthy(profile.username)
    THEN <<fstr(profile.network) \o <<": ">> \o fstr(profile.username)>>
    ELSE IF Truthy(profile.url) THEN <<profile.url>>
    ELSE <<>>

profile_parts(profiles) ==
    Flatten([k \in 1..Len(profiles) |-> profile_part(profiles[k])])

PDF_build_header(res) ==
    LET basics == res.basics[1]
        contact_parts == PDF_contact_parts(basics)
        parts == profile_parts(basics.profiles)
    IN  When(Truthy(basics.name), Paragraph(basics.name, "Name", "basics", 0))
        \o When(Truthy(basics.label),
                Paragraph(basics.label, "Label", "basics", 0))
        \o When(Len(contact_parts) > 0,
                Paragraph(join(" | ", contact_parts), "Contact", "basics", 0))
        \o When(Len(basics.profiles) > 0 /\ Len(parts) > 0,
                Paragraph(join(" | ", parts), "Contact", "basics", 0))
        \o (IF Truthy(basics.summary)
            THEN <<Spacer(8, "basics", 0),
                   Paragraph(basics.summary, "Body", "basics", 0)>>
            ELSE <<>>)
        \o <<_section_divider("basics")>>

\* no title unless both halves are there
TitlePartsNeedsBoth(first, word, second) ==
    IF Truthy(first) /\ Truthy(second)
    THEN <<first, <<word>> \o fstr(second)>>
    ELSE <<>>

\* the second half appended without looking at it
TitlePartsSecondAlways(first, word, second) ==
    When(Truthy(first), first) \o <<<<word>> \o fstr(second)>>

\* position and "at <name>" joined by a space
title_parts(first, word, second) ==
    When(Truthy(first), first)
        \o When(Truthy(second), <<word>> \o fstr(second))

PDF_bullets(highlights, sec, k) ==
    [h \in 1..Len(highlights) |->
        Paragraph(<<Bullet>> \o fstr(highlights[h]), "BulletItem", sec, k)]

PDF_work_entry(job, k) ==
    LET parts == title_parts(job.position, "at ", job.name)
        date_range == format_date_range(job.startDate, job.endDate)
    IN  When(Len(parts) > 0, Paragraph(join(" ", parts), "ItemTitle", "work", k))
        \o When(Truthy(date_range),
                Paragraph(date_range, "ItemSubtitle", "work", k))
        \o When(Truthy(job.summary), Paragraph(job.summary, "Body", "work", k))
        \o PDF_bullets(job.highlights, "work", k)
        \o <<Spacer(8, "work", k)>>

PDF_build_work_section(res) ==
    <<Paragraph(<<"EXPERIENCE">>, "SectionTitle", "work", 0)>>
        \o Flatten([k \in 1..Len(res.work) |->
                        PDF_work_entry(res.work[k], k)])

PDF_education_entry(edu, k) ==
    LET parts == title_parts(edu.studyType, "in ", edu.area)
        subtitle == IF Truthy(edu.score)
                    THEN edu.institution \o <<" | GPA: ">> \o fstr(edu.score)
                    ELSE edu.institution
        date_range == format_date_range(edu.startDate, edu.endDate)
    IN  When(Len(parts) > 0,
             Paragraph(join(" ", parts), "ItemTitle", "education", k))
        \o When(Truthy(edu.institution),
                Paragraph(subtitle, "ItemSubtitle", "education", k))
        \o When(Truthy(date_range),
                Paragraph(date_range, "ItemSubtitle", "education", k))
        \o When(Len(edu.courses) > 0,
                Paragraph(<<"Courses: ">> \o join(", ", edu.courses),
                          "Body", "education", k))
        \o <<Spacer(6, "education", k)>>

PDF_build_education_section(res) ==
    <<Paragraph(<<"EDUCATION">>, "SectionTitle", "education", 0)>>
        \o Flatten([k \in 1..Len(res.education) |->
                        PDF_education_entry(res.education[k], k)])

\* the paragraph is built for every skill, with "" when the name is missing
PDF_skill_entry(skill, k) ==
    LET skill_text ==
            IF Truthy(skill.name)
            THEN <<"<b>">> \o fstr(skill.name) \o <<"</b>">>
                 \o (IF Truthy(skill.level)
                     THEN <<" (">> \o fstr(skill.level) \o <<")">> ELSE <<>>)
                 \o (IF Len(skill.keywords) > 0
                     THEN <<": ">> \o join(", ", skill.keywords) ELSE <<>>)
            ELSE <<>>
    IN  <<Paragraph(skill_text, "Body", "skills", k)>>

PDF_build_skills_section(res) ==
    <<Paragraph(<<"SKILLS">>, "SectionTitle", "skills", 0)>>
        \o Flatten([k \in 1..Len(res.skills) |->
                        PDF_skill_entry(res.skills[k], k)])
        \o <<Spacer(6, "skills", 0)>>

PDF_project_entry(project, k) ==
    LET date_range == format_date_range(project.startDate, project.endDate)
    IN  When(Truthy(project.name),
             Paragraph(project.name, "ItemTitle", "projects", k))
        \o When(Truthy(date_range),
                Paragraph(date_range, "ItemSubtitle", "projects", k))
        \o When(Truthy(project.description),
                Paragraph(project.description, "Body", "projects", k))
        \o PDF_bullets(project.highlights, "projects", k)
        \o When(Truthy(project.url),
                Paragraph(project.url, "ItemSubtitle", "projects", k))
        \o <<Spacer(6, "projects", k)>>

PDF_build_projects_section(res) ==
    <<Paragraph(<<"PROJECTS">>, "SectionTitle", "projects", 0)>>
        \o Flatten([k \in 1..Len(res.projects) |->
                        PDF_project_entry(res.projects[k], k)])

\* the date put into the subtitle as it was given
SubtitlePartsRawDate(who, date) ==
    When(Truthy(who), who) \o When(Truthy(date), date)

\* issuer and the formatted date, as many as are present
subtitle_parts(who, date) ==
    When(Truthy(who), who) \o When(Truthy(date), _format_date(date))

PDF_certificate_entry(cert, k) ==
    LET parts == subtitle_parts(cert.issuer, cert.date)
    IN  When(Truthy(cert.name),
             Paragraph(cert.name, "ItemTitle", "certificates", k))
        \o When(Len(parts) > 0,
                Paragraph(join(" | ", parts), "ItemSubtitle",
                          "certificates", k))
        \o <<Spacer(4, "certificates", k)>>

PDF_build_certificates_section(res) ==
    <<Paragraph(<<"CERTIFICATES">>, "SectionTitle", "certificates", 0)>>
        \o Flatten([k \in 1..Len(res.certificates) |->
                        PDF_certificate_entry(res.certificates[k], k)])

PDF_award_entry(award, k) ==
    LET parts == subtitle_parts(award.awarder, award.date)
    IN  When(Truthy(award.title),
             Paragraph(award.title, "ItemTitle", "awards", k))
        \o When(Len(parts) > 0,
                Paragraph(join(" | ", parts), "ItemSubtitle", "awards", k))
        \o When(Truthy(award.summary),
                Paragraph(award.summary, "Body", "awards", k))
        \o <<Spacer(4, "awards", k)>>

PDF_build_awards_section(res) ==
    <<Paragraph(<<"AWARDS">>, "SectionTitle", "awards", 0)>>
        \o Flatten([k \in 1..Len(res.awards) |->
                        PDF_award_entry(res.awards[k], k)])

PDF_publication_entry(pub, k) ==
    LET parts == subtitle_parts(pub.publisher, pub.releaseDate)
    IN  When(Truthy(pub.name),
             Paragraph(pub.name, "ItemTitle", "publications", k))
        \o When(Len(parts) > 0,
                Paragraph(join(" | ", parts), "ItemSubtitle",
                          "publications", k))
        \o When(Truthy(pub.summary),
                Paragraph(pub.summary, "Body", "publications", k))
        \o <<Spacer(4, "publications", k)>>

PDF_build_publications_section(res) ==
    <<Paragraph(<<"PUBLICATIONS">>, "SectionTitle", "publications", 0)>>
        \o Flatten([k \in 1..Len(res.publications) |->
                        PDF_publication_entry(res.publications[k], k)])

PDF_volunteer_entry(vol, k) ==
    LET parts == title_parts(vol.position, "at ", vol.organization)
        date_range == format_date_range(vol.startDate, vol.endDate)
    IN  When(Len(parts) > 0,
             Paragraph(join(" ", parts), "ItemTitle", "volunteer", k))
        \o When(Truthy(date_range),
                Paragraph(date_range, "ItemSubtitle", "volunteer", k))
        \o When(Truthy(vol.summary),
                Paragraph(vol.summary, "Body", "volunteer", k))
        \o PDF_bullets(vol.highlights, "volunteer", k)
        \o <<Spacer(6, "volunteer", k)>>

PDF_build_volunteer_section(res) ==
    <<Paragraph(<<"VOLUNTEER">>, "SectionTitle", "volunteer", 0)>>
        \o Flatten([k \in 1..Len(res.volunteer) |->
                        PDF_volunteer_entry(res.volunteer[k], k)])

lang_text(lang) ==
    IF Truthy(lang.language)
    THEN <<lang.language
           \o (IF Truthy(lang.fluency)
               THEN <<" (">> \o fstr(lang.fluency) \o <<")">> ELSE <<>>)>>
    ELSE <<>>

lang_texts(languages) ==
    Flatten([k \in 1..Len(languages) |-> lang_text(languages[k])])

PDF_build_languages_section(res) ==
    LET texts == lang_texts(res.languages)
    IN  <<Paragraph(<<"LANGUAGES">>, "SectionTitle", "languages", 0)>>
        \o When(Len(texts) > 0,
                Paragraph(join(", ", texts), "Body", "languages", 0))
        \o <<Spacer(6, "languages", 0)>>

PDF_interest_entry(interest, k) ==
    When(Truthy(interest.name),
         Paragraph(<<"<b>">> \o fstr(interest.name) \o <<"</b>">>
                   \o (IF Len(interest.keywords) > 0
                       THEN <<": ">> \o join(", ", interest.keywords)
                       ELSE <<>>),
                   "Body", "interests", k))

PDF_build_interests_section(res) ==
    <<Paragraph(<<"INTERESTS">>, "SectionTitle", "interests", 0)>>
        \o Flatten([k \in 1..Len(res.interests) |->
                        PDF_interest_entry(res.interests[k], k)])
        \o <<Spacer(6, "interests", 0)>>

PDF_reference_entry(ref, k) ==
    When(Truthy(ref.name), Paragraph(ref.name, "ItemTitle", "references", k))
        \o When(Truthy(ref.reference),
                Paragraph(<<"\"">> \o fstr(ref.reference) \o <<"\"">>,
                          "Body", "references", k))
        \o <<Spacer(4, "references", k)>>

PDF_build_references_section(res) ==
    <<Paragraph(<<"REFERENCES">>, "SectionTitle", "references", 0)>>
        \o Flatten([k \in 1..Len(res.references) |->
                        PDF_reference_entry(res.references[k], k)])

(***************************************************************************)
(* DOCXGenerator: the section builders.  Each appends paragraphs to        *)
(* self.doc; the operators give the paragraphs one call appends.           *)
(***************************************************************************)
Run(theme, text, font_size, bold, italic, color) ==
    [text |-> text, font |-> theme.font_name, size |-> font_size,
     bold |-> bold, italic |-> italic, color |-> color]

DocxParagraph(runs, alignment, space_after, sec, entry) ==
    [kind |-> "paragraph", style |-> alignment, size |-> space_after,
     text |-> <<>>, runs |-> runs, sec |-> sec, entry |-> entry]

\* DOCXGenerator._add_paragraph: one paragraph holding one run
_add_paragraph(theme, text, font_size, bold, italic, color, alignment, space_after, sec, entry) ==
    DocxParagraph(<<Run(theme, text, font_size, bold, italic, color)>>,
                  alignment, space_after, sec, entry)

_add_section_title(theme, title, sec) ==
    _add_paragraph(theme, <<title>>, 12, TRUE, FALSE, theme.accent_color,
                   "LEFT", 6, sec, 0)

DOCX_item_title(theme, text, sec, k) ==
    _add_paragraph(theme, text, 11, TRUE, FALSE, theme.primary_color,
                   "LEFT", 2, sec, k)

DOCX_secondary(theme, text, space_after, sec, k) ==
    _add_paragraph(theme, text, 10, FALSE, FALSE, theme.secondary_color,
                   "LEFT", space_after, sec, k)

DOCX_primary(theme, text, space_after, sec, k) ==
    _add_paragraph(theme, text, 10, FALSE, FALSE, theme.primary_color,
                   "LEFT", space_after, sec, k)

DOCX_build_header(res, theme) ==
    LET basics == res.basics[1]
        contact_parts == PDF_contact_parts(basics)
        parts == profile_parts(basics.profiles)
    IN  When(Truthy(basics.name),
             _add_paragraph(theme, basics.name, 24, TRUE, FALSE,
                            theme.primary_color, "CENTER", 4, "basics", 0))
        \o When(Truthy(basics.label),
                _add_paragraph(theme, basics.label, 14, FALSE, FALSE,
                               theme.secondary_color, "CENTER", 8,
                               "basics", 0))
        \o When(Len(contact_parts) > 0,
                _add_paragraph(theme, join(" | ", contact_parts), 10, FALSE,
                               FALSE, theme.secondary_color, "CENTER", 8,
                               "basics", 0))
        \o When(Len(basics.profiles) > 0 /\ Len(parts) > 0,
                _add_paragraph(theme, join(" | ", parts), 10, FALSE, FALSE,
                               theme.secondary_color, "CENTER", 12,
                               "basics", 0))
        \o When(Truthy(basics.summary),
                _add_paragraph(theme, basics.summary, 10, FALSE, FALSE,
                               theme.primary_color, "JUSTIFY", 12,
                               "basics", 0))

DOCX_bullets(theme, highlights, sec, k) ==
    [h \in 1..Len(highlights) |->
        DOCX_primary(theme, <<Bullet>> \o fstr(highlights[h]), 2, sec, k)]

DOCX_work_entry(theme, job, k) ==
    LET parts == title_parts(job.position, "at ", job.name)
        date_range == format_date_range(job.startDate, job.endDate)
    IN  When(Len(parts) > 0, DOCX_item_title(theme, join(" ", parts), "work", k))
        \o When(Truthy(date_range),
                DOCX_secondary(theme, date_range, 4, "work", k))
        \o When(Truthy(job.summary),
                DOCX_primary(theme, job.summary, 4, "work", k))
        \o DOCX_bullets(theme, job.highlights, "work", k)

DOCX_build_work_section(res, theme) ==
    <<_add_section_title(theme, "EXPERIENCE", "work")>>
        \o Flatten([k \in 1..Len(res.work) |->
                        DOCX_work_entry(theme, res.work[k], k)])

\* no courses line is built here
DOCX_education_entry(theme, edu, k) ==
    LET parts == title_parts(edu.studyType, "in ", edu.area)
        subtitle == IF Truthy(edu.score)
                    THEN edu.institution \o <<" | GPA: ">> \o fstr(edu.score)
                    ELSE edu.institution
        date_range == format_date_range(edu.startDate, edu.endDate)
    IN  When(Len(parts) > 0,
             DOCX_item_title(theme, join(" ", parts), "education", k))
        \o When(Truthy(edu.institution),
                DOCX_secondary(theme, subtitle, 2, "education", k))
        \o When(Truthy(date_range),
                DOCX_secondary(theme, date_range, 6, "education", k))

DOCX_build_education_section(res, theme) ==
    <<_add_section_title(theme, "EDUCATION", "education")>>
        \o Flatten([k \in 1..Len(res.education) |->
                        DOCX_education_entry(theme, res.education[k], k)])

\* one paragraph of up to three runs, only for a skill that has a name
DOCX_skill_entry(theme, skill, k) ==
    When(Truthy(skill.name),
         DocxParagraph(
            <<Run(theme, skill.name, 10, TRUE, FALSE, theme.primary_color)>>
            \o When(Truthy(skill.level),
                    Run(theme, <<" (">> \o fstr(skill.level) \o <<")">>, 10,
                        FALSE, FALSE, theme.secondary_color))
            \o When(Len(skill.keywords) > 0,
                    Run(theme, <<": ">> \o join(", ", skill.keywords), 10,
                        FALSE, FALSE, theme.primary_color)),
            "", 4, "skills", k))

DOCX_build_skills_section(res, theme) ==
    <<_add_section_title(theme, "SKILLS", "skills")>>
        \o Flatten([k \in 1..Len(res.skills) |->
                        DOCX_skill_entry(theme, res.skills[k], k)])

\* no URL line is built here
DOCX_project_entry(theme, project, k) ==
    LET date_range == format_date_range(project.startDate, project.endDate)
    IN  When(Truthy(project.name),
             DOCX_item_title(theme, project.name, "projects", k))
        \o When(Truthy(date_range),
                DOCX_secondary(theme, date_range, 4, "projects", k))
        \o When(Truthy(project.description),
                DOCX_primary(theme, project.description, 4, "projects", k))
        \o DOCX_bullets(theme, project.highlights, "projects", k)

DOCX_build_projects_section(res, theme) ==
    <<_add_section_title(theme, "PROJECTS", "projects")>>
        \o Flatten([k \in 1..Len(res.projects) |->
                        DOCX_project_entry(theme, res.projects[k], k)])

DOCX_certificate_entry(theme, cert, k) ==
    LET parts == subtitle_parts(cert.issuer, cert.date)
    IN  When(Truthy(cert.name),
             DOCX_item_title(theme, cert.name, "certificates", k))
        \o When(Len(parts) > 0,
                DOCX_secondary(theme, join(" | ", parts), 6,
                               "certificates", k))

DOCX_build_certificates_section(res, theme) ==
    <<_add_section_title(theme, "CERTIFICATES", "certificates")>>
        \o Flatten([k \in 1..Len(res.certificates) |->
                        DOCX_certificate_entry(theme, res.certificates[k], k)])

DOCX_award_entry(theme, award, k) ==
    LET parts == subtitle_parts(award.awarder, award.date)
    IN  When(Truthy(award.title),
             DOCX_item_title(theme, award.title, "awards", k))
        \o When(Len(parts) > 0,
                DOCX_secondary(theme, join(" | ", parts), 4, "awards", k))
        \o When(Truthy(award.summary),
                DOCX_primary(theme, award.summary, 6, "awards", k))

DOCX_build_awards_section(res, theme) ==
    <<_add_section_title(theme, "AWARDS", "awards")>>
        \o Flatten([k \in 1..Len(res.awards) |->
                        DOCX_award_entry(theme, res.awards[k], k)])

DOCX_publication_entry(theme, pub, k) ==
    LET parts == subtitle_parts(pub.publisher, pub.releaseDate)
    IN  When(Truthy(pub.name),
             DOCX_item_title(theme, pub.name, "publications", k))
        \o When(Len(parts) > 0,
                DOCX_secondary(theme, join(" | ", parts), 4,
                               "publications", k))
        \o When(Truthy(pub.summary),
                DOCX_primary(theme, pub.summary, 6, "publications", k))

DOCX_build_publications_section(res, theme) ==
    <<_add_section_title(theme, "PUBLICATIONS", "publications")>>
        \o Flatten([k \in 1..Len(res.publications) |->
                        DOCX_publication_entry(theme, res.publications[k], k)])

DOCX_volunteer_entry(theme, vol, k) ==
    LET parts == title_parts(vol.position, "at ", vol.organization)
        date_range == format_date_range(vol.startDate, vol.endDate)
    IN  When(Len(parts) > 0,
             DOCX_item_title(theme, join(" ", parts), "volunteer", k))
        \o When(Truthy(date_range),
                DOCX_secondary(theme, date_range, 4, "volunteer", k))
        \o When(Truthy(vol.summary),
                DOCX_primary(theme, vol.summary, 4, "volunteer", k))
        \o DOCX_bullets(theme, vol.highlights, "volunteer", k)

DOCX_build_volunteer_section(res, theme) ==
    <<_add_section_title(theme, "VOLUNTEER", "volunteer")>>
        \o Flatten([k \in 1..Len(res.volunteer) |->
                        DOCX_volunteer_entry(theme, res.volunteer[k], k)])

DOCX_build_languages_section(res, theme) ==
    LET texts == lang_texts(res.languages)
    IN  <<_add_section_title(theme, "LANGUAGES", "languages")>>
        \o When(Len(texts) > 0,
                DOCX_primary(theme, join(", ", texts), 6, "languages", 0))

DOCX_interest_entry(theme, interest, k) ==
    When(Truthy(interest.name),
         DocxParagraph(
            <<Run(theme, interest.name, 10, TRUE, FALSE, theme.primary_color)>>
            \o When(Len(interest.keywords) > 0,
                    Run(theme, <<": ">> \o join(", ", interest.keywords), 10,
                        FALSE, FALSE, theme.primary_color)),
            "", 4, "interests", k))

DOCX_build_interests_section(res, theme) ==
    <<_add_section_title(theme, "INTERESTS", "interests")>>
        \o Flatten([k \in 1..Len(res.interests) |->
                        DOCX_interest_entry(theme, res.interests[k], k)])

DOCX_reference_entry(theme, ref, k) ==
    When(Truthy(ref.name), DOCX_item_title(theme, ref.name, "references", k))
        \o When(Truthy(ref.reference),
                _add_paragraph(theme,
                               <<"\"">> \o fstr(ref.reference) \o <<"\"">>,
                               10, FALSE, TRUE, theme.primary_color, "LEFT",
                               6, "references", k))

DOCX_build_references_section(res, theme) ==
    <<_add_section_title(theme, "REFERENCES", "references")>>
        \o Flatten([k \in 1..Len(res.references) |->
                        DOCX_reference_entry(theme, res.references[k], k)])

(***************************************************************************)
(* generate: the twelve building steps, in the order of the code           *)
(***************************************************************************)
\* the sections walked in the order in which Resume declares its fields
SectionOrderAsDeclared ==
    <<"basics", "work", "volunteer", "education", "awards", "certificates",
      "publications", "skills", "languages", "interests", "references",
      "projects">>

SectionOrder ==
    <<"basics", "work", "education", "skills", "projects", "certificates",
      "awards", "publications", "volunteer", "languages", "interests",
      "references">>

ListSections == { SectionOrder[k] : k \in 2..12 }

\* the heading each list section is given
Heading ==
    [work |-> "EXPERIENCE", education |-> "EDUCATION", skills |-> "SKILLS",
     projects |-> "PROJECTS", certificates |-> "CERTIFICATES",
     awards |-> "AWARDS", publications |-> "PUBLICATIONS",
     volunteer |-> "VOLUNTEER", languages |-> "LANGUAGES",
     interests |-> "INTERESTS", references |-> "REFERENCES"]

\* "if self.resume.<section>:" (basics is one optional object, the others
\* are lists)
SectionPresentIfMany(res, sec) ==
    IF sec = "basics" THEN Len(res[sec]) > 0 ELSE Len(res[sec]) > 1

SectionPresent(res, sec) == Len(res[sec]) > 0

PDF_build(res, sec) ==
    CASE sec = "basics" -> PDF_build_header(res)
      [] sec = "work" -> PDF_build_work_section(res)
      [] sec = "education" -> PDF_build_education_section(res)
      [] sec = "skills" -> PDF_build_skills_section(res)
      [] sec = "projects" -> PDF_build_projects_section(res)
      [] sec = "certificates" -> PDF_build_certificates_section(res)
      [] sec = "awards" -> PDF_build_awards_section(res)
      [] sec = "publications" -> PDF_build_publications_section(res)
      [] sec = "volunteer" -> PDF_build_volunteer_section(res)
      [] sec = "languages" -> PDF_build_languages_section(res)
      [] sec = "interests" -> PDF_build_interests_section(res)
      [] sec = "references" -> PDF_build_references_section(res)

DOCX_build(res, theme, sec) ==
    CASE sec = "basics" -> DOCX_build_header(res, theme)
      [] sec = "work" -> DOCX_build_work_section(res, theme)
      [] sec = "education" -> DOCX_build_education_section(res, theme)
      [] sec = "skills" -> DOCX_build_skills_section(res, theme)
      [] sec = "projects" -> DOCX_build_projects_section(res, theme)
      [] sec = "certificates" -> DOCX_build_certificates_section(res, theme)
      [] sec = "awards" -> DOCX_build_awards_section(res, theme)
      [] sec = "publications" -> DOCX_build_publications_section(res, theme)
      [] sec = "volunteer" -> DOCX_build_volunteer_section(res, theme)
      [] sec = "languages" -> DOCX_build_languages_section(res, theme)
      [] sec = "interests" -> DOCX_build_interests_section(res, theme)
      [] sec = "references" -> DOCX_build_references_section(res, theme)

(***************************************************************************)
(* Resumes: the validated data model handed to a renderer.  An optional    *)
(* object (basics, location) is a list of no or one record.                *)
(***************************************************************************)
T_Acme == <<"A", "c", "m", "e">>
T_Eng == <<"E", "n", "g">>
T_Ann == <<"A", "n", "n">>
T_Dev == <<"D", "e", "v">>
T_RnD == <<"R", "&", "D">>
T_Less == <<"x", "<", "y">>
T_Tag == <<"<", "b", ">">>
T_Quote == <<"\"", "q", "\"">>
T_Url == <<"h", ":", "/", "/", "u">>
T_2020_01 == <<"2", "0", "2", "0", "-", "0", "1">>
T_2020_03_15 == <<"2", "0", "2", "0", "-", "0", "3", "-", "1", "5">>
T_2023_06 == <<"2", "0", "2", "3", "-", "0", "6">>
T_2019 == <<"2", "0", "1", "9">>

Location(city, region, countryCode) ==
    [address |-> None, postalCode |-> None, city |-> city,
     countryCode |-> countryCode, region |-> region]

Profile(network, username, url) ==
    [network |-> network, username |-> username, url |-> url]

BasicsBlank ==
    [name |-> None, label |-> None, image |-> None, email |-> None,
     phone |-> None, url |-> None, summary |-> None, location |-> <<>>,
     profiles |-> <<>>]

BasicsFull ==
    [name |-> T_Ann, label |-> T_Dev, image |-> None, email |-> <<"a", "@", "b">>,
     phone |-> <<"5", "5", "5">>, url |-> T_Url, summary |-> T_Less,
     location |-> <<Location(<<"N", "Y", "C">>, None, <<"U", "S">>)>>,
     profiles |-> <<Profile(<<"G", "i", "t">>, T_Ann, None),
                    Profile(None, T_Ann, T_Url),
                    Profile(<<"X">>, None, None)>>]

BasicsNameOnly ==
    [BasicsBlank EXCEPT !.name = T_RnD,
                        !.location = <<Location(None, None, None)>>,
                        !.profiles = <<Profile(None, None, None)>>]

BasicsChoices == { <<>>, <<BasicsBlank>>, <<BasicsFull>>, <<BasicsNameOnly>> }

Pool ==
    [work |->
        <<[name |-> T_Acme, position |-> T_Eng, url |-> None,
           startDate |-> T_2020_01, endDate |-> None, summary |-> None,
           highlights |-> <<>>],
          [name |-> T_RnD, position |-> None, url |-> T_Url,
           startDate |-> T_2020_03_15, endDate |-> T_2023_06,
           summary |-> T_Less, highlights |-> <<T_Dev, T_Tag>>],
          [name |-> None, position |-> None, url |-> None,
           startDate |-> None, endDate |-> None, summary |-> None,
           highlights |-> <<>>]>>,
     education |->
        <<[institution |-> <<"M", "I", "T">>, url |-> None, area |-> <<"C", "S">>,
           studyType |-> <<"B", "S">>, startDate |-> T_2019,
           endDate |-> T_2023_06, score |-> <<"4">>,
           courses |-> <<<<"A", "I">>, T_RnD>>],
          [institution |-> None, url |-> None, area |-> <<"C", "S">>,
           studyType |-> None, startDate |-> None, endDate |-> None,
           score |-> <<"4">>, courses |-> <<>>]>>,
     skills |->
        <<[name |-> T_RnD, level |-> <<"p", "r", "o">>,
           keywords |-> <<<<"g", "o">>, T_Less>>],
          [name |-> None, level |-> <<"p", "r", "o">>, keywords |-> <<>>]>>,
     projects |->
        <<[name |-> <<"T", "o", "o", "l">>, startDate |-> None,
           endDate |-> T_2023_06, description |-> T_Tag,
           highlights |-> <<T_Eng>>, url |-> T_Url],
          [name |-> None, startDate |-> None, endDate |-> None,
           description |-> None, highlights |-> <<>>, url |-> None]>>,
     certificates |->
        <<[name |-> <<"A", "W", "S">>, date |-> T_2020_03_15,
           issuer |-> T_Acme, url |-> None],
          [name |-> None, date |-> T_2019, issuer |-> None, url |-> None]>>,
     awards |->
        <<[title |-> <<"B", "e", "s", "t">>, date |-> T_2020_01,
           awarder |-> T_RnD, summary |-> T_Quote],
          [title |-> None, date |-> None, awarder |-> None,
           summary |-> None]>>,
     publications |->
        <<[name |-> <<"O", "n", " ", "X">>, publisher |-> T_Acme,
           releaseDate |-> T_2023_06, url |-> None, summary |-> T_Less],
          [name |-> None, publisher |-> T_Acme, releaseDate |-> None,
           url |-> None, summary |-> None]>>,
     volunteer |->
        <<[organization |-> T_Acme, position |-> T_Dev, url |-> None,
           startDate |-> None, endDate |-> T_2020_01, summary |-> T_RnD,
           highlights |-> <<T_Eng>>],
          [organization |-> T_Acme, position |-> None, url |-> None,
           startDate |-> None, endDate |-> None, summary |-> None,
           highlights |-> <<>>]>>,
     languages |->
        <<[language |-> <<"E", "N">>, fluency |-> <<"C", "2">>],
          [language |-> <<"F", "R">>, fluency |-> None],
          [language |-> None, fluency |-> <<"C", "2">>]>>,
     interests |->
        <<[name |-> <<"G", "o">>, keywords |-> <<T_Tag, T_Eng>>],
          [name |-> None, keywords |-> <<T_Eng>>]>>,
     references |->
        <<[name |-> T_Ann, reference |-> T_Quote],
          [name |-> None, reference |-> None]>>]

EmptyResume ==
    [basics |-> <<>>, work |-> <<>>, volunteer |-> <<>>, education |-> <<>>,
     awards |-> <<>>, certificates |-> <<>>, publications |-> <<>>,
     skills |-> <<>>, languages |-> <<>>, interests |-> <<>>,
     references |-> <<>>, projects |-> <<>>]

\* the lists of at most MaxEntries entries drawn from a section's pool
ListsOf(sec) ==
    UNION { [1..n -> { Pool[sec][k] : k \in 1..Len(Pool[sec]) }] :
                n \in 0..MaxEntries }

\* every section filled with the first n entries of its pool
FullResume(n) ==
    [sec \in DOMAIN EmptyResume |->
        IF sec = "basics" THEN <<BasicsFull>>
        ELSE SubSeq(Pool[sec], 1, IF n < Len(Pool[sec]) THEN n
                                  ELSE Len(Pool[sec]))]

Resumes ==
    UNION { { [EmptyResume EXCEPT ![sec] = l] : l \in ListsOf(sec) } :
                sec \in ListSections }
      \cup { [EmptyResume EXCEPT !.basics = b] : b \in BasicsChoices }
      \cup { FullResume(n) : n \in 1..MaxEntries }
      \cup { [FullResume(1) EXCEPT !.basics = <<>>] }

(***************************************************************************)
(* Renderer instances, their generate calls and the output files           *)
(***************************************************************************)
Inst == {"g1", "g2"}

\* a pathlib.Path: the directory names of its parent, the stem of its name
\* and the suffix of its name as a text
Path(parent, stem, suffix) ==
    [parent |-> parent, stem |-> stem, suffix |-> suffix]

OutPaths == { Path(<<"out">>, "resume", <<>>), Path(<<"out">>, "copy", <<>>) }

\* the directories above the paths of a set, the working directory included
ParentsOf(paths) == { p.parent : p \in paths } \cup { <<>> }

\* no method was called by name
NoOutcome == [raised |-> "", value |-> None]

\* no convert run
CliOff ==
    [pc |-> "off", format |-> <<>>, style |-> "professional",
     output_file |-> Path(<<>>, "", <<>>),
     input |-> [source |-> "file", kind |-> "missing", data |-> <<>>,
                errors |-> <<>>],
     output_format |-> <<>>, exit_code |-> -1, echoed |-> <<>>]

StyleNames == PresetNames \cup {"fancy"}

NoTheme ==
    [primary_color |-> "", secondary_color |-> "", accent_color |-> "",
     font_name |-> "", font_name_bold |-> ""]

NoFile == [state |-> "absent", fmt |-> "none", blocks |-> <<>>]

\* pc of an instance: 0 outside generate, k in 1..12 before building step k,
\* SavePc before doc.build(story) / self.doc.save(path)
SavePc == Len(SectionOrder) + 1

\* a renderer that was not constructed; fmt, style and path are the
\* arguments its caller uses
Unbuilt(fmt, style, path) ==
    [fmt |-> fmt, style |-> style, path |-> path, alive |-> FALSE,
     theme |-> NoTheme, doc |-> <<>>, story |-> <<>>, mark |-> 0,
     pc |-> 0, status |-> "new"]

Built(blocks) == [err |-> FALSE, blocks |-> blocks]

\* an exception raised by the step itself
Raised == [err |-> TRUE, blocks |-> <<>>]

\* the building step without its "if self.resume.<section>:" test; the
\* header builder then reads basics.name of None
GenerateStepUnguarded(fmt, res, theme, sec) ==
    IF sec = "basics" /\ ~SectionPresent(res, sec) THEN Raised
    ELSE Built(IF fmt = "pdf" THEN PDF_build(res, sec)
               ELSE DOCX_build(res, theme, sec))

\* the header built for every resume, from empty basics when there are none
GenerateStepHeaderAlways(fmt, res, theme, sec) ==
    IF sec = "basics" /\ ~SectionPresent(res, sec)
    THEN Built(IF fmt = "pdf"
               THEN PDF_build([res EXCEPT !.basics = <<BasicsBlank>>], sec)
               ELSE DOCX_build([res EXCEPT !.basics = <<BasicsBlank>>], theme,
                               sec))
    ELSE IF SectionPresent(res, sec)
    THEN Built(IF fmt = "pdf" THEN PDF_build(res, sec)
               ELSE DOCX_build(res, theme, sec))
    ELSE Built(<<>>)

\* one "if self.resume.<section>: <build it>" statement of generate
generate_step(fmt, res, theme, sec) ==
    IF SectionPresent(res, sec)
    THEN Built(IF fmt = "pdf" THEN PDF_build(res, sec)
               ELSE DOCX_build(res, theme, sec))
    ELSE Built(<<>>)

\* BaseGenerator.__init__, then PDFGenerator.__init__ / DOCXGenerator.__init__
\* (theme lookup, a new empty Document for DOCX)
Construct(i) ==
    /\ gen[i].fmt # "none"
    /\ gen[i].pc = 0
    /\ gen' = [gen EXCEPT ![i] =
                  [@ EXCEPT !.alive = TRUE,
                            !.theme = theme_for(gen[i].fmt, gen[i].style),
                            !.doc = <<>>, !.story = <<>>, !.mark = 0,
                            !.status = "new"]]
    /\ UNCHANGED <<resume, env, dirs, files, written, ncalls, ovars>>

\* entry of generate(output_path): story = [] in PDFGenerator; DOCXGenerator
\* goes on with the self.doc of __init__, whatever earlier calls left in it,
\* a call that raised included.  MaxCalls bounds the calls of one behaviour.
Begin(i) ==
    /\ gen[i].alive
    /\ gen[i].pc = 0
    /\ ncalls < MaxCalls
    /\ ncalls' = ncalls + 1
    /\ gen' = [gen EXCEPT ![i] =
                  [@ EXCEPT !.pc = 1, !.story = <<>>,
                            !.mark = Len(gen[i].doc), !.status = "running"]]
    /\ UNCHANGED <<resume, env, dirs, files, written, ovars>>

\* the call is left by an exception: the local story is gone, self.doc
\* keeps what was appended
Abort(i, appended) ==
    [gen[i] EXCEPT !.pc = 0, !.status = "raised", !.story = <<>>,
                   !.doc = IF gen[i].fmt = "docx"
                           THEN gen[i].doc \o appended ELSE gen[i].doc]

\* a building step that also saves the document as far as it is built
BuildSavingAsItGoes(i) ==
    /\ gen[i].pc \in 1..Len(SectionOrder)
    /\ \E g \in {gen[i]} :
       \E r \in {generate_step(g.fmt, resume, g.theme, SectionOrder[g.pc])} :
           /\ gen' = [gen EXCEPT ![i] =
                        [@ EXCEPT !.pc = g.pc + 1,
                                  !.story = IF g.fmt = "pdf"
                                            THEN g.story \o r.blocks
                                            ELSE g.story,
                                  !.doc = IF g.fmt = "docx"
                                          THEN g.doc \o r.blocks
                                          ELSE g.doc]]
           /\ files' = [files EXCEPT ![g.path] =
                          [state |-> "complete", fmt |-> g.fmt,
                           blocks |-> (IF g.fmt = "pdf" THEN g.story
                                       ELSE g.doc) \o r.blocks]]
    /\ UNCHANGED <<resume, env, dirs, written, ncalls, ovars>>

\* a building step that reverses the list it renders in place
BuildReversingInPlace(i) ==
    /\ gen[i].pc \in 1..Len(SectionOrder)
    /\ \E g \in {gen[i]} :
       \E r \in {generate_step(g.fmt, resume, g.theme, SectionOrder[g.pc])} :
           /\ gen' = [gen EXCEPT ![i] =
                        [@ EXCEPT !.pc = g.pc + 1,
                                  !.story = IF g.fmt = "pdf"
                                            THEN g.story \o r.blocks
                                            ELSE g.story,
                                  !.doc = IF g.fmt = "docx"
                                          THEN g.doc \o r.blocks
                                          ELSE g.doc]]
           /\ resume' = [resume EXCEPT ![SectionOrder[g.pc]] =
                            [k \in 1..Len(@) |-> @[Len(@) + 1 - k]]]
    /\ UNCHANGED <<env, dirs, files, written, ncalls, ovars>>

\* a building step that appends to a story or document which all renderers
\* of one format have in common
BuildIntoSharedDocument(i) ==
    /\ gen[i].pc \in 1..Len(SectionOrder)
    /\ \E g \in {gen[i]} :
       \E r \in {generate_step(g.fmt, resume, g.theme, SectionOrder[g.pc])} :
           gen' = [j \in Inst |->
                     IF gen[j].alive /\ gen[j].fmt = g.fmt
                     THEN [gen[j] EXCEPT
                             !.pc = IF j = i THEN g.pc + 1 ELSE @,
                             !.story = IF g.fmt = "pdf" THEN @ \o r.blocks
                                       ELSE @,
                             !.doc = IF g.fmt = "docx" THEN @ \o r.blocks
                                     ELSE @]
                     ELSE gen[j]]
    /\ UNCHANGED <<resume, env, dirs, files, written, ncalls, ovars>>

\* the attributes the code sets on run k of a paragraph after add_run, in
\* its order: _add_paragraph sets the name, the size, bold, italic and the
\* colour; the skills and interests builders, which leave the alignment
\* alone, set the name, the size, bold on the first run only, and the colour
run_setters(b, k) ==
    IF b.style # "" THEN <<"font", "size", "bold", "italic", "color">>
    ELSE IF k = 1 THEN <<"font", "size", "bold", "color">>
    ELSE <<"font", "size", "color">>

\* the first j of the setters hold the one of attribute a
SetAmong(setters, j, a) == \E n \in 1..j : setters[n] = a

\* a run on which only the first j of its setters have acted
PartialRun(run, setters, j) ==
    [text |-> run.text,
     font |-> IF SetAmong(setters, j, "font") THEN run.font ELSE "",
     size |-> IF SetAmong(setters, j, "size") THEN run.size ELSE 0,
     bold |-> IF SetAmong(setters, j, "bold") THEN run.bold ELSE FALSE,
     italic |-> IF SetAmong(setters, j, "italic") THEN run.italic ELSE FALSE,
     color |-> IF SetAmong(setters, j, "color") THEN run.color ELSE ""]

\* what a paragraph is in self.doc when the library raises in a call made
\* for it after doc.add_paragraph(): in alignment= (nothing is set), in
\* space_after= (_add_paragraph has set the alignment), in space_before= or
\* the first add_run (no run), in a setter of run k (the run has its text
\* and what was set before), or in add_run of the run after run k
PartialParagraphs(b) ==
    { [b EXCEPT !.style = "", !.size = 0, !.runs = <<>>],
      [b EXCEPT !.size = 0, !.runs = <<>>],
      [b EXCEPT !.runs = <<>>] }
      \cup UNION { { [b EXCEPT !.runs =
                        SubSeq(b.runs, 1, k - 1)
                          \o <<PartialRun(b.runs[k], run_setters(b, k), j)>>] :
                       j \in 0..(Len(run_setters(b, k)) - 1) } :
                     k \in 1..Len(b.runs) }
      \cup { [b EXCEPT !.runs = SubSeq(b.runs, 1, k)] :
               k \in 1..(Len(b.runs) - 1) }

\* a highlight paragraph, on which paragraph_format.left_indent is set after
\* _add_paragraph has returned; only these start with the bullet literal
IsBulletParagraph(b) ==
    /\ Len(b.runs) > 0
    /\ b.runs[1].text # <<>>
    /\ Head(b.runs[1].text) = Bullet

\* what self.doc has gained when the library raises while the paragraphs of
\* blocks are added: the first n paragraphs (add_paragraph of the next one
\* raised, or left_indent= of paragraph n), or these and the next one as far
\* as it was built
DocxPartial(blocks) ==
    UNION { { SubSeq(blocks, 1, n) }
               \cup { SubSeq(blocks, 1, n) \o <<p>> :
                        p \in PartialParagraphs(blocks[n + 1]) } :
              n \in 0..(Len(blocks) - 1) }
      \cup (IF blocks # <<>> /\ IsBulletParagraph(blocks[Len(blocks)])
            THEN {blocks} ELSE {})

\* one building step of generate.  In a faulty environment the output
\* library may raise in any of the calls the step makes.
Build(i) ==
    /\ gen[i].pc \in 1..Len(SectionOrder)
    /\ \E g \in {gen[i]} :
       \E r \in {generate_step(g.fmt, resume, g.theme, SectionOrder[g.pc])} :
           \/ gen' = [gen EXCEPT ![i] =
                           IF r.err THEN Abort(i, <<>>)
                           ELSE [@ EXCEPT !.pc = g.pc + 1,
                                          !.story = IF g.fmt = "pdf"
                                                    THEN g.story \o r.blocks
                                                    ELSE g.story,
                                          !.doc = IF g.fmt = "docx"
                                                  THEN g.doc \o r.blocks
                                                  ELSE g.doc]]
           \/ /\ ~r.err
              /\ env = "faulty"
              /\ \/ /\ g.fmt = "pdf"
                    /\ r.blocks # <<>>
                    /\ gen' = [gen EXCEPT ![i] = Abort(i, <<>>)]
                 \/ /\ g.fmt = "docx"
                    /\ \E part \in DocxPartial(r.blocks) :
                          gen' = [gen EXCEPT ![i] = Abort(i, part)]
    /\ UNCHANGED <<resume, env, dirs, files, written, ncalls, ovars>>

\* what the call hands to the library for serialization
Content(g) == IF g.fmt = "pdf" THEN g.story ELSE g.doc

\* doc.build(story) / self.doc.save(str(output_path)): the file is written.
\* The library raises when the directory of the path does not exist, and in
\* a faulty environment it may raise before it opens the file or while it
\* writes it.
Save(i) ==
    /\ gen[i].pc = SavePc
    /\ LET g == gen[i]
       IN  \/ /\ g.path.parent \in dirs
              /\ files' = [files EXCEPT ![g.path] =
                            [state |-> "complete", fmt |-> g.fmt,
                             blocks |-> Content(g)]]
              /\ written' = Append(written,
                                [inst |-> i, fmt |-> g.fmt, style |-> g.style,
                                 path |-> g.path, blocks |-> Content(g)])
              /\ gen' = [gen EXCEPT ![i] =
                           [@ EXCEPT !.pc = 0, !.status = "done"]]
           \/ /\ env = "faulty" \/ g.path.parent \notin dirs
              /\ \/ files' = files
                 \/ /\ g.path.parent \in dirs
                    /\ files' = [files EXCEPT ![g.path] =
                                   [state |-> "truncated", fmt |-> g.fmt,
                                    blocks |-> <<>>]]
              /\ written' = written
              /\ gen' = [gen EXCEPT ![i] =
                           [@ EXCEPT !.pc = 0, !.status = "raised"]]
    /\ UNCHANGED <<resume, env, dirs, ncalls, ovars>>

DateIdle == dstart = None /\ dend = None /\ dop = "none" /\ dout = None

MethodIdle ==
    /\ mrecv = [fmt |-> "none", style |-> "professional"]
    /\ mname = "none" /\ margs = <<>> /\ mout = NoOutcome

\* the resumes rendered in a faulty environment: nothing, a name, one skill
\* (a paragraph of three runs) and one job that is a highlight only
FaultyResumes ==
    { EmptyResume,
      [EmptyResume EXCEPT !.basics = <<BasicsNameOnly>>],
      [EmptyResume EXCEPT !.skills = SubSeq(Pool.skills, 1, 1)],
      [EmptyResume EXCEPT
          !.work = <<[Pool.work[3] EXCEPT !.highlights = <<T_Dev>>]>>] }

\* one caller with one renderer; the helpers and the command are not used
Init ==
    /\ \/ env = "healthy" /\ resume \in Resumes
       \/ env = "faulty" /\ resume \in FaultyResumes
    /\ \E fmt \in {"pdf", "docx"}, style \in StyleNames :
          gen = [i \in Inst |->
                    IF i = "g1"
                    THEN Unbuilt(fmt, style, Path(<<"out">>, "resume", <<>>))
                    ELSE Unbuilt("none", "professional",
                                 Path(<<"out">>, "copy", <<>>))]
    /\ dirs = ParentsOf(OutPaths)
    /\ files = [p \in OutPaths |-> NoFile]
    /\ written = <<>>
    /\ ncalls = 0
    /\ DateIdle /\ MethodIdle /\ cli = CliOff

Next == \E i \in Inst : Construct(i) \/ Begin(i) \/ Build(i) \/ Save(i)

Spec == Init /\ [][Next]_vars

(***************************************************************************)
(* The date helpers applied to bounded arguments                           *)
(***************************************************************************)
DateSegs ==
    { <<"2", "0", "2", "0">>, <<"0", "3">>, <<"1", "2">>, <<"1", "3">>,
      <<"0", "0">>, <<"1", "5">>, <<"n", "o", "t">>, <<"a">>,
      <<"d", "a", "t", "e">>, <<>>, <<"+", "7">>, <<"\t", "3">>,
      <<"\\u0663">>, <<"\\uff11", "\\uff12">> }

RECURSIVE DashJoin(_)
DashJoin(segs) ==
    IF Len(segs) = 1 THEN segs[1]
    ELSE segs[1] \o <<"-">> \o DashJoin(Tail(segs))

DateStrings ==
    { DashJoin(segs) : segs \in UNION { [1..n -> DateSegs] : n \in 1..MaxSegs } }

StartArgs == DateStrings \cup {None}

EndArgs ==
    { None, <<>>, <<"2", "0", "2", "1">>,
      <<"2", "0", "2", "3", "-", "0", "6", "-", "1", "5">> }

\* no renderer is in use
GenIdle ==
    /\ resume = EmptyResume
    /\ env = "healthy"
    /\ gen = [i \in Inst |->
                Unbuilt("none", "professional", Path(<<"out">>, "resume", <<>>))]
    /\ dirs = ParentsOf(OutPaths)
    /\ files = [p \in OutPaths |-> NoFile]
    /\ written = <<>>
    /\ ncalls = 0

DateInit ==
    /\ dstart \in StartArgs
    /\ dend \in EndArgs
    /\ dop = "none"
    /\ dout = None
    /\ GenIdle
    /\ MethodIdle
    /\ cli = CliOff

CallFormatDate ==
    /\ dop = "none"
    /\ dstart # None
    /\ dop' = "_format_date"
    /\ dout' = _format_date(dstart)
    /\ UNCHANGED <<dstart, dend, gvars, mvars, cli>>

CallFormatDateRange ==
    /\ dop = "none"
    /\ dop' = "format_date_range"
    /\ dout' = format_date_range(dstart, dend)
    /\ UNCHANGED <<dstart, dend, gvars, mvars, cli>>

DateNext == CallFormatDate \/ CallFormatDateRange

SpecDate == DateInit /\ [][DateNext]_vars

(***************************************************************************)
(* Methods of a renderer called by name                                    *)
(***************************************************************************)
\* the methods class BaseGenerator defines
BaseMethods == {"__init__", "generate", "format_date_range", "_format_date"}

\* the methods class PDFGenerator defines
PDF_Methods ==
    {"__init__", "_setup_styles", "generate", "_build_header",
     "_section_divider", "_build_work_section", "_build_education_section",
     "_build_skills_section", "_build_projects_section",
     "_build_certificates_section", "_build_awards_section",
     "_build_publications_section", "_build_volunteer_section",
     "_build_languages_section", "_build_interests_section",
     "_build_references_section"}

\* the methods class DOCXGenerator defines
DOCX_Methods ==
    {"__init__", "_setup_document", "generate", "_add_paragraph",
     "_add_section_title", "_build_header", "_build_work_section",
     "_build_education_section", "_build_skills_section",
     "_build_projects_section", "_build_certificates_section",
     "_build_awards_section", "_build_publications_section",
     "_build_volunteer_section", "_build_languages_section",
     "_build_interests_section", "_build_references_section"}

\* the names an attribute lookup on a renderer finds as methods
Methods(fmt) ==
    (IF fmt = "pdf" THEN PDF_Methods ELSE DOCX_Methods) \cup BaseMethods

Returned(v) == [raised |-> "", value |-> v]

RaisedError(e) == [raised |-> e, value |-> None]

\* generator.<name>(*args): the attribute lookup, then the call of the
\* helper found
call_method(recv, name, args) ==
    IF name \notin Methods(recv.fmt) THEN RaisedError("AttributeError")
    ELSE IF name = "_format_date" THEN Returned(_format_date(args[1]))
    ELSE Returned(format_date_range(args[1], args[2]))

T_GitHub == <<"G", "i", "t", "H", "u", "b">>

NetworkNames ==
    { T_GitHub, <<"G", "I", "T", "H", "U", "B">>, lower(T_GitHub),
      <<" ">> \o T_GitHub \o <<" ">>,
      <<"L", "i", "n", "k", "e", "d", "I", "n">>,
      <<"T", "w", "i", "t", "t", "e", "r">>,
      <<"Y", "o", "u", "T", "u", "b", "e">>,
      <<"G", "o", "o", "g", "l", "e", " ", "S", "c", "h", "o", "l", "a", "r">>,
      <<"O", "R", "C", "I", "D">>, <<"o", "r", "c", "i", "d", " ">>,
      <<"X", "i", "n", "g">>, <<>> }

UserNames ==
    { <<"a", "l", "i", "c", "e">>, <<"u">>, <<"0", "0", "-", "1", "X">> }

LinkUrls ==
    { <<"h", "t", "t", "p", "s", ":", "/", "/", "e", "x", ".", "c", "o">>,
      <<"h", "t", "t", "p", ":", "/", "/", "a", ".", "b", "/", "c">> }

LinkTexts == { <<"E", "x">>, <<"a", " ", "b">>, T_GitHub }

\* the calls made: the two link helpers and the two date helpers
MethodCalls ==
    { [name |-> "_get_profile_url", args |-> <<n, u>>] :
          n \in NetworkNames, u \in UserNames }
      \cup { [name |-> "_make_link", args |-> <<url, t>>] :
                 url \in LinkUrls, t \in LinkTexts }
      \cup { [name |-> "_format_date", args |-> <<d>>] :
                 d \in { <<"2", "0", "2", "0", "-", "0", "3">>,
                         <<"2", "0", "2", "1">> } }
      \cup { [name |-> "format_date_range", args |-> <<d, None>>] :
                 d \in { <<"2", "0", "2", "0", "-", "0", "3">>, None } }

MethodInit ==
    /\ mrecv \in [fmt : {"pdf", "docx"}, style : StyleNames]
    /\ \E c \in MethodCalls : mname = c.name /\ margs = c.args
    /\ mout = NoOutcome
    /\ GenIdle
    /\ DateIdle
    /\ cli = CliOff

CallMethod ==
    /\ mout = NoOutcome
    /\ mout' = call_method(mrecv, mname, margs)
    /\ UNCHANGED <<mrecv, mname, margs, gvars, dvars, cli>>

MethodNext == CallMethod

SpecMethod == MethodInit /\ [][MethodNext]_vars

(***************************************************************************)
(* cli.convert                                                             *)
(*                                                                         *)
(* cli is the state of one run: pc (start, read, validate, mkdir,          *)
(* construct, call, in_generate, exit), the options format (<<>> when      *)
(* --format is not given) and style, output_file, the input source and     *)
(* what it holds, output_format once decided, the exit status (-1 while    *)
(* running) and the messages echoed.                                       *)
(***************************************************************************)
T_pdf == <<".", "p", "d", "f">>

T_docx == <<".", "d", "o", "c", "x">>

CliPaths ==
    { Path(<<"out">>, "cv", x) :
          x \in { T_pdf, T_docx, <<".", "P", "D", "F">>,
                  <<".", "D", "o", "c", "x">>, <<".", "t", "x", "t">>,
                  <<".", "P", "\\u00c9">>, <<>> } }
      \cup { Path(<<"new", "deep">>, "cv", T_pdf), Path(<<>>, "cv", T_docx) }

\* the resumes a valid input holds
CliResumes ==
    { EmptyResume, FullResume(1),
      [EmptyResume EXCEPT !.basics = <<BasicsNameOnly>>] }

\* the fields of Resume in the order of their declaration
DeclaredOrder ==
    <<"basics", "work", "volunteer", "education", "awards", "certificates",
      "publications", "skills", "languages", "interests", "references",
      "projects">>

\* the orders in which an input file has its keys: as declared, and the
\* other way round
KeyOrders ==
    { DeclaredOrder, [k \in 1..Len(DeclaredOrder) |->
                        DeclaredOrder[Len(DeclaredOrder) + 1 - k]] }

\* the JSON object of a resume: its keys with their values in the order
\* given, a key without a value left out
Json(res, order) ==
    LET pairs == [k \in 1..Len(order) |-> <<order[k], res[order[k]]>>]
        filled(pair) == Len(pair[2]) > 0
    IN  SelectSeq(pairs, filled)

\* Resume.model_validate(data) for data that is a resume: every field takes
\* the value of its key, and its default when the key is missing
model_validate(data) ==
    [s \in DOMAIN EmptyResume |->
        IF \E k \in 1..Len(data) : data[k][1] = s
        THEN data[CHOOSE k \in 1..Len(data) : data[k][1] = s][2]
        ELSE EmptyResume[s]]

\* e.errors() of the ValidationError pydantic raises for JSON that is not a
\* resume: "loc" with each item as str(x) gives it, and "msg"
ValidationErrors ==
    { <<[loc |-> <<<<"work">>>>, msg |-> "Input should be a valid list"]>>,
      <<[loc |-> <<>>,
         msg |-> "Input should be a valid dictionary or instance of Resume"]>>,
      <<[loc |-> <<<<"work">>, <<"0">>, <<"name">>>>,
         msg |-> "Input should be a valid string"],
        [loc |-> <<<<"skills">>>>, msg |-> "Input should be a valid list"]>> }

\* the input source and what reading it gives: nothing (no such file, or an
\* HTTP error), text that is not JSON, an unreadable file, JSON that is not
\* a resume, or a resume; for a URL also a host that cannot be reached, a
\* body that is not UTF-8 and a read that times out
CliInputs ==
    { [source |-> src, kind |-> k, data |-> <<>>, errors |-> <<>>] :
          src \in {"file", "url"}, k \in {"missing", "not_json"} }
      \cup { [source |-> "file", kind |-> "unreadable", data |-> <<>>,
              errors |-> <<>>] }
      \cup { [source |-> "url", kind |-> k, data |-> <<>>, errors |-> <<>>] :
                 k \in {"unreachable", "not_utf8", "timeout"} }
      \cup { [source |-> src, kind |-> "invalid", data |-> <<>>,
              errors |-> e] :
                 src \in {"file", "url"}, e \in ValidationErrors }
      \cup { [source |-> src, kind |-> "valid", data |-> Json(r, o),
              errors |-> <<>>] :
                 src \in {"file", "url"}, r \in CliResumes, o \in KeyOrders }

\* sys.exit(code) after click.echo(msg), or the end of the command
Exit(c, code, msg) ==
    [c EXCEPT !.pc = "exit", !.exit_code = code, !.echoed = Append(@, msg)]

\* a directory and the directories above it
Prefixes(dir) == { SubSeq(dir, 1, k) : k \in 0..Len(dir) }

\* the command creating the output directory before anything else
ConvertInferFormatMkdirFirst ==
    /\ cli.pc = "start"
    /\ dirs' = dirs \cup Prefixes(cli.output_file.parent)
    /\ cli' = IF cli.format # <<>>
              THEN [cli EXCEPT !.pc = "read", !.output_format = cli.format]
              ELSE IF lower(cli.output_file.suffix) = T_pdf
              THEN [cli EXCEPT !.pc = "read", !.output_format = <<"pdf">>]
              ELSE IF lower(cli.output_file.suffix) = T_docx
              THEN [cli EXCEPT !.pc = "read", !.output_format = <<"docx">>]
              ELSE Exit(cli, 1, "Error: Cannot determine output format")
    /\ UNCHANGED <<resume, env, gen, files, written, ncalls, dvars, mvars>>

\* the command case-sensitive about the suffix
ConvertInferFormatExact ==
    /\ cli.pc = "start"
    /\ cli' = IF cli.format # <<>>
              THEN [cli EXCEPT !.pc = "read", !.output_format = cli.format]
              ELSE IF cli.output_file.suffix = T_pdf
              THEN [cli EXCEPT !.pc = "read", !.output_format = <<"pdf">>]
              ELSE IF cli.output_file.suffix = T_docx
              THEN [cli EXCEPT !.pc = "read", !.output_format = <<"docx">>]
              ELSE Exit(cli, 1, "Error: Cannot determine output format")
    /\ UNCHANGED <<gvars, dvars, mvars>>

\* output_format = format, or inferred from output_file.suffix.lower()
ConvertInferFormat ==
    /\ cli.pc = "start"
    /\ cli' = IF cli.format # <<>>
              THEN [cli EXCEPT !.pc = "read", !.output_format = cli.format]
              ELSE IF lower(cli.output_file.suffix) = T_pdf
              THEN [cli EXCEPT !.pc = "read", !.output_format = <<"pdf">>]
              ELSE IF lower(cli.output_file.suffix) = T_docx
              THEN [cli EXCEPT !.pc = "read", !.output_format = <<"docx">>]
              ELSE Exit(cli, 1, "Error: Cannot determine output format")
    /\ UNCHANGED <<gvars, dvars, mvars>>

\* fetch_json_from_url(input_source), or open and json.load the input file.
\* A ClickException ends the command with "Error: " and its message and
\* status 1.  No except clause of fetch_json_from_url takes the
\* UnicodeDecodeError of decode("utf-8") or the TimeoutError of read(): the
\* command ends with a traceback.
ConvertReadInput ==
    /\ cli.pc = "read"
    /\ cli' =
         IF cli.input.source = "url"
         THEN LET fetching ==
                    [cli EXCEPT !.echoed =
                                  Append(@, "Fetching resume from URL...")]
              IN  IF cli.input.kind = "missing"
                  THEN Exit(fetching, 1, "Error: HTTP error fetching URL")
                  ELSE IF cli.input.kind = "unreachable"
                  THEN Exit(fetching, 1, "Error: Error fetching URL")
                  ELSE IF cli.input.kind = "not_json"
                  THEN Exit(fetching, 1, "Error: Invalid JSON from URL")
                  ELSE IF cli.input.kind \in {"not_utf8", "timeout"}
                  THEN Exit(fetching, 1, "Traceback")
                  ELSE [fetching EXCEPT !.pc = "validate"]
         ELSE IF cli.input.kind = "missing"
              THEN Exit(cli, 1, "Error: File not found")
              ELSE IF cli.input.kind = "not_json"
              THEN Exit(cli, 1, "Error: Invalid JSON in input file")
              ELSE IF cli.input.kind = "unreadable"
              THEN Exit(cli, 1, "Error reading input file")
              ELSE [cli EXCEPT !.pc = "validate"]
    /\ UNCHANGED <<gvars, dvars, mvars>>

\* the command taking whatever JSON it read for a resume
ConvertValidateLenient ==
    /\ cli.pc = "validate"
    /\ resume' = model_validate(cli.input.data)
    /\ cli' = [cli EXCEPT !.pc = "mkdir"]
    /\ UNCHANGED <<env, gen, dirs, files, written, ncalls, dvars, mvars>>

\* f"  - {loc}: {error['msg']}" with loc = ".".join(str(x) for x in
\* error["loc"])
error_line(error) ==
    "  - " \o StrOf(join(".", error.loc)) \o ": " \o error.msg

\* resume = Resume.model_validate(data); a ValidationError is reported by a
\* header line and one line for each of its errors, then sys.exit(1)
ConvertValidate ==
    /\ cli.pc = "validate"
    /\ IF cli.input.kind = "valid"
       THEN /\ resume' = model_validate(cli.input.data)
            /\ cli' = [cli EXCEPT !.pc = "mkdir"]
       ELSE /\ resume' = resume
            /\ cli' = [cli EXCEPT
                         !.pc = "exit", !.exit_code = 1,
                         !.echoed =
                            @ \o <<"Error: Invalid JSON Resume format:">>
                              \o [k \in 1..Len(cli.input.errors) |->
                                      error_line(cli.input.errors[k])]]
    /\ UNCHANGED <<env, gen, dirs, files, written, ncalls, dvars, mvars>>

\* the command without the directory creation
ConvertMkdirSkipped ==
    /\ cli.pc = "mkdir"
    /\ cli' = [cli EXCEPT !.pc = "construct"]
    /\ UNCHANGED <<gvars, dvars, mvars>>

\* output_file.parent.mkdir(parents=True, exist_ok=True), outside any try:
\* an OSError of a faulty disk ends the command with a traceback.  The
\* missing directories are made one at a time from the top, and those made
\* before the error stay.
ConvertMkdir ==
    /\ cli.pc = "mkdir"
    /\ \/ /\ dirs' = dirs \cup Prefixes(cli.output_file.parent)
          /\ cli' = [cli EXCEPT !.pc = "construct"]
       \/ /\ env = "faulty"
          /\ \/ dirs' = dirs
             \/ \E n \in 0..(Len(cli.output_file.parent) - 1) :
                   dirs' = dirs \cup Prefixes(SubSeq(cli.output_file.parent,
                                                     1, n))
          /\ cli' = Exit(cli, 1, "Traceback")
    /\ UNCHANGED <<resume, env, gen, files, written, ncalls, dvars, mvars>>

\* the characters of the values output_format takes
FormatChars ==
    [pdf |-> <<"p", "d", "f">>, docx |-> <<"d", "o", "c", "x">>]

\* f"Error generating {output_format.upper()}", the head of the message of
\* the except clause
GenerateError(c) ==
    "Error generating " \o StrOf(upper(FormatChars[c.output_format[1]]))

\* PDFGenerator(resume, style=style, page_size=page_size) or
\* DOCXGenerator(resume, style=style), inside the try
ConvertConstruct ==
    /\ cli.pc = "construct"
    /\ \/ /\ gen' = [gen EXCEPT !["g1"] =
                       [Unbuilt(cli.output_format[1], cli.style,
                                cli.output_file)
                          EXCEPT !.alive = TRUE,
                                 !.theme = theme_for(cli.output_format[1],
                                                     cli.style)]]
          /\ cli' = [cli EXCEPT !.pc = "call"]
       \/ /\ env = "faulty"
          /\ gen' = gen
          /\ cli' = Exit(cli, 1, GenerateError(cli))
    /\ UNCHANGED <<resume, env, dirs, files, written, ncalls, dvars, mvars>>

\* generator.generate(output_file) is entered
ConvertGenerate ==
    /\ cli.pc = "call"
    /\ gen' = [gen EXCEPT !["g1"] =
                 [@ EXCEPT !.pc = 1, !.story = <<>>,
                           !.mark = Len(gen["g1"].doc),
                           !.status = "running"]]
    /\ ncalls' = ncalls + 1
    /\ cli' = [cli EXCEPT !.pc = "in_generate"]
    /\ UNCHANGED <<resume, env, dirs, files, written, dvars, mvars>>

\* the command printing the success message whatever generate did
ConvertReturnSwallowing ==
    /\ cli.pc = "in_generate"
    /\ gen["g1"].pc = 0
    /\ cli' = Exit(cli, 0, "Successfully generated")
    /\ UNCHANGED <<gvars, dvars, mvars>>

\* generate has returned (the success message, then the end of the command)
\* or has raised (the except clause: the error message and sys.exit(1))
ConvertReturn ==
    /\ cli.pc = "in_generate"
    /\ gen["g1"].pc = 0
    /\ cli' = IF gen["g1"].status = "done"
              THEN Exit(cli, 0, "Successfully generated")
              ELSE Exit(cli, 1, GenerateError(cli))
    /\ UNCHANGED <<gvars, dvars, mvars>>

CliInit ==
    /\ \E f \in {<<>>, <<"pdf">>, <<"docx">>}, st \in {"professional", "modern"},
          o \in CliPaths, in \in CliInputs :
          cli = [CliOff EXCEPT !.pc = "start", !.format = f, !.style = st,
                               !.output_file = o, !.input = in]
    /\ resume = EmptyResume
    /\ env \in {"healthy", "faulty"}
    /\ gen = [i \in Inst |->
                Unbuilt("none", "professional", Path(<<>>, "", <<>>))]
    /\ dirs \in { {<<>>}, {<<>>, <<"out">>} }
    /\ files = [p \in CliPaths |-> NoFile]
    /\ written = <<>>
    /\ ncalls = 0
    /\ DateIdle
    /\ MethodIdle

CliNext ==
    \/ ConvertInferFormat
    \/ ConvertReadInput
    \/ ConvertValidate
    \/ ConvertMkdir
    \/ ConvertConstruct
    \/ ConvertGenerate
    \/ Build("g1")
    \/ Save("g1")
    \/ ConvertReturn

SpecCli == CliInit /\ [][CliNext]_vars

(***************************************************************************)
(* Two callers, each with a renderer of its own, whose steps interleave    *)
(***************************************************************************)
TwoResumes ==
    { FullResume(1),
      [EmptyResume EXCEPT !.basics = <<BasicsNameOnly>>,
                          !.work = SubSeq(Pool.work, 1, 2)] }

\* the resumes two renderers are given in a faulty environment
TwoFaultyResumes ==
    { [EmptyResume EXCEPT !.basics = <<BasicsNameOnly>>],
      [EmptyResume EXCEPT
          !.work = <<[Pool.work[3] EXCEPT !.highlights = <<T_Dev>>]>>] }

TwoInit ==
    /\ \/ env = "healthy" /\ resume \in TwoResumes
       \/ env = "faulty" /\ resume \in TwoFaultyResumes
    /\ \E f1, f2 \in {"pdf", "docx"}, style \in {"modern", "elegant"} :
          gen = [i \in Inst |->
                    IF i = "g1"
                    THEN Unbuilt(f1, "modern", Path(<<"out">>, "resume", <<>>))
                    ELSE Unbuilt(f2, style, Path(<<"out">>, "copy", <<>>))]
    /\ dirs = ParentsOf(OutPaths)
    /\ files = [p \in OutPaths |-> NoFile]
    /\ written = <<>>
    /\ ncalls = 0
    /\ DateIdle /\ MethodIdle /\ cli = CliOff

SpecTwo == TwoInit /\ [][Next]_vars

(***************************************************************************)
(* One renderer given a resume of one section with one or two entries, the *)
(* fields of an entry present or absent in every combination               *)
(***************************************************************************)
Maybe(t) == {None, t}

WorkEntries ==
    { [name |-> n, position |-> p, url |-> None, startDate |-> s,
       endDate |-> None, summary |-> m, highlights |-> h] :
        n \in Maybe(T_Acme), p \in Maybe(T_Eng), s \in Maybe(T_2020_01),
        m \in Maybe(T_RnD), h \in {<<>>, <<T_Dev>>} }

VolunteerEntries ==
    { [organization |-> o, position |-> p, url |-> None, startDate |-> s,
       endDate |-> None, summary |-> m, highlights |-> h] :
        o \in Maybe(T_Acme), p \in Maybe(T_Dev), s \in Maybe(T_2019),
        m \in Maybe(T_RnD), h \in {<<>>, <<T_Eng>>} }

CertificateEntries ==
    { [name |-> n, date |-> d, issuer |-> w, url |-> None] :
        n \in Maybe(<<"A", "W", "S">>), d \in Maybe(T_2020_03_15),
        w \in Maybe(T_Acme) }

AwardEntries ==
    { [title |-> n, date |-> d, awarder |-> w, summary |-> m] :
        n \in Maybe(<<"B", "e", "s", "t">>), d \in Maybe(T_2020_01),
        w \in Maybe(T_RnD), m \in Maybe(T_Quote) }

PublicationEntries ==
    { [name |-> n, publisher |-> w, releaseDate |-> d, url |-> None,
       summary |-> m] :
        n \in Maybe(<<"O", "n", " ", "X">>), d \in Maybe(T_2019),
        w \in Maybe(T_Acme), m \in Maybe(T_Less) }

Profiles ==
    { Profile(n, u, l) :
        n \in Maybe(<<"G", "i", "t">>), u \in Maybe(T_Ann), l \in Maybe(T_Url) }

ProfileLists == UNION { [1..n -> Profiles] : n \in 0..2 }

\* the entry of each section whose fields are all absent
BlankEntries ==
    [work |-> Pool.work[3], education |->
        [institution |-> None, url |-> None, area |-> None, studyType |-> None,
         startDate |-> None, endDate |-> None, score |-> None,
         courses |-> <<>>],
     skills |-> [name |-> None, level |-> None, keywords |-> <<>>],
     projects |-> Pool.projects[2],
     certificates |-> [name |-> None, date |-> None, issuer |-> None,
                       url |-> None],
     awards |-> Pool.awards[2],
     publications |-> [name |-> None, publisher |-> None,
                       releaseDate |-> None, url |-> None, summary |-> None],
     volunteer |-> [organization |-> None, position |-> None, url |-> None,
                    startDate |-> None, endDate |-> None, summary |-> None,
                    highlights |-> <<>>],
     languages |-> [language |-> None, fluency |-> None],
     interests |-> [name |-> None, keywords |-> <<>>],
     references |-> Pool.references[2]]

OneEntry(sec, entries) ==
    { [EmptyResume EXCEPT ![sec] = <<e>>] : e \in entries }

EntryResumes ==
    OneEntry("work", WorkEntries) \cup OneEntry("volunteer", VolunteerEntries)
      \cup OneEntry("certificates", CertificateEntries)
      \cup OneEntry("awards", AwardEntries)
      \cup OneEntry("publications", PublicationEntries)
      \cup { [EmptyResume EXCEPT
                 !.basics = <<[BasicsBlank EXCEPT !.profiles = l]>>] :
                l \in ProfileLists }
      \cup UNION { { [EmptyResume EXCEPT ![sec] = <<BlankEntries[sec]>>],
                     [EmptyResume EXCEPT
                        ![sec] = <<BlankEntries[sec], Pool[sec][1]>>] } :
                        sec \in ListSections }

\* one caller with one renderer of the professional preset
EntryInit ==
    /\ \/ env = "healthy" /\ resume \in EntryResumes
       \/ env = "faulty" /\ resume \in FaultyResumes
    /\ \E fmt \in {"pdf", "docx"} :
          gen = [i \in Inst |->
                    IF i = "g1"
                    THEN Unbuilt(fmt, "professional",
                                 Path(<<"out">>, "resume", <<>>))
                    ELSE Unbuilt("none", "professional",
                                 Path(<<"out">>, "copy", <<>>))]
    /\ dirs = ParentsOf(OutPaths)
    /\ files = [p \in OutPaths |-> NoFile]
    /\ written = <<>>
    /\ ncalls = 0
    /\ DateIdle /\ MethodIdle /\ cli = CliOff

SpecEntry == EntryInit /\ [][Next]_vars

(***************************************************************************)
(* Properties of the date helpers                                          *)
(***************************************************************************)
AllDigits(s) == \A i \in 1..Len(s) : IsDigit(s[i])

\* YYYY-MM or YYYY-MM-DD with the month in 1..12
IsPartialDate(s) ==
    /\ s # None
    /\ Len(s) \in {7, 10}
    /\ AllDigits(SubSeq(s, 1, 4))
    /\ s[5] = "-"
    /\ AllDigits(SubSeq(s, 6, 7))
    /\ 10 * DigitVal(s[6]) + DigitVal(s[7]) \in 1..12
    /\ Len(s) = 10 => (s[8] = "-" /\ AllDigits(SubSeq(s, 9, 10)))

MonthOf(s) == 10 * DigitVal(s[6]) + DigitVal(s[7])

MonthAbbrev ==
    [m \in 1..12 |->
        CASE m = 1 -> "Jan" [] m = 2 -> "Feb" [] m = 3 -> "Mar"
          [] m = 4 -> "Apr" [] m = 5 -> "May" [] m = 6 -> "Jun"
          [] m = 7 -> "Jul" [] m = 8 -> "Aug" [] m = 9 -> "Sep"
          [] m = 10 -> "Oct" [] m = 11 -> "Nov" [] m = 12 -> "Dec"]

\* C4: _format_date on YYYY-MM or YYYY-MM-DD with the month in 1..12 gives
\* the three-letter month, one space and the year; the day plays no part.
C4_PartialDateFormatted ==
    (dop = "_format_date" /\ IsPartialDate(dstart)) =>
        StrOf(dout) = MonthAbbrev[MonthOf(dstart)] \o " "
                        \o StrOf(SubSeq(dstart, 1, 4))

C4_Witness ==
    /\ dop = "_format_date"
    /\ StrOf(dstart) = "2020-03-15"
    /\ StrOf(dout) = "Mar 2020"

\* C5: _format_date returns every string that is not YYYY-MM or YYYY-MM-DD
\* with the month in 1..12 unchanged.
C5_OtherShapesUnchanged ==
    (dop = "_format_date" /\ ~IsPartialDate(dstart)) => dout = dstart

Absent(x) == x = None \/ x = <<>>

\* C6: format_date_range gives "" for no dates, "<start> - Present" for a
\* start only, "Until <end>" for an end only and "<start> - <end>" for
\* both, each date formatted by _format_date.
C6_DateRangeCases ==
    dop = "format_date_range" =>
        LET s == StrOf(_format_date(dstart))
            e == StrOf(_format_date(dend))
        IN  /\ (Absent(dstart) /\ Absent(dend)) => StrOf(dout) = ""
            /\ (~Absent(dstart) /\ Absent(dend)) =>
                    StrOf(dout) = s \o " - Present"
            /\ (Absent(dstart) /\ ~Absent(dend)) =>
                    StrOf(dout) = "Until " \o e
            /\ (~Absent(dstart) /\ ~Absent(dend)) =>
                    StrOf(dout) = s \o " - " \o e

C6_Witness ==
    /\ dop = "format_date_range"
    /\ StrOf(dstart) = "2020-03-15"
    /\ dend = None
    /\ StrOf(dout) = "Mar 2020 - Present"

(***************************************************************************)
(* Properties of the renderers                                             *)
(***************************************************************************)
\* the text of a block: the markup text of a Paragraph, the run texts of a
\* python-docx paragraph
BlockText(b) ==
    IF b.kind = "paragraph"
    THEN Flatten([k \in 1..Len(b.runs) |-> b.runs[k].text])
    ELSE b.text

IsTextBlock(b) == b.kind \in {"Paragraph", "paragraph"}

\* the texts of the text blocks of a document, in order
TextBlocks(blocks) ==
    LET texts == SelectSeq(blocks, IsTextBlock)
    IN  [k \in 1..Len(texts) |-> StrOf(BlockText(texts[k]))]

\* the blocks the current or last generate call of g has composed
Emitted(g) ==
    IF g.fmt = "pdf" THEN g.story ELSE SubSeq(g.doc, g.mark + 1, Len(g.doc))

Finished(g) == g.status \in {"done", "raised"}

\* C1: two generate calls with the same inputs and output path write
\* documents with the same sequence of text blocks, whether the second call
\* is made on the same renderer or on a new one.
C1_GenerateIdempotent ==
    \A a, b \in 1..Len(written) :
        (/\ written[a].fmt = written[b].fmt
         /\ written[a].style = written[b].style
         /\ written[a].path = written[b].path)
            => TextBlocks(written[a].blocks) = TextBlocks(written[b].blocks)

\* C2: in the blocks one generate call composes, the heading of a list
\* section is there exactly when the list is not empty, at most once, before
\* the blocks of the section, which form one run and follow the order of the
\* entries.
C2_SectionEmission ==
    \A i \in Inst : gen[i].status = "done" =>
        LET e == Emitted(gen[i])
        IN  \A s \in ListSections :
                LET H == { k \in 1..Len(e) : BlockText(e[k]) = <<Heading[s]>> }
                    B == { k \in 1..Len(e) : e[k].sec = s }
                IN  /\ (H # {}) <=> (Len(resume[s]) > 0)
                    /\ Cardinality(H) <= 1
                    /\ H \subseteq B
                    /\ \A h \in H, k \in B : h <= k
                    /\ \A j, k \in B : \A m \in j..k : m \in B
                    /\ \A j, k \in B :
                          (j < k /\ e[j].entry > 0 /\ e[k].entry > 0)
                              => e[j].entry <= e[k].entry
                    /\ \A k \in B : e[k].entry <= Len(resume[s])

C2_Witness ==
    \E i \in Inst :
        /\ gen[i].status = "done"
        /\ Len(resume.work) = 2
        /\ resume.work[1] # resume.work[2]
        /\ Len(resume.skills) = 0
        /\ \E k \in 1..Len(Emitted(gen[i])) :
              /\ Emitted(gen[i])[k].sec = "work"
              /\ Emitted(gen[i])[k].entry = 2

\* C3: for the empty resume a generate call ends without an error, writes
\* the output file and composes no block at all.
C3_EmptyResumeRenders ==
    \A i \in Inst :
        (resume = EmptyResume /\ env = "healthy" /\ Finished(gen[i])) =>
            /\ gen[i].status = "done"
            /\ files[gen[i].path].state = "complete"
            /\ files[gen[i].path].blocks = <<>>
            /\ Emitted(gen[i]) = <<>>

C3_Witness ==
    \E i \in Inst :
        /\ resume = EmptyResume
        /\ env = "healthy"
        /\ gen[i].status = "done"
        /\ files[gen[i].path].state = "complete"

\* XML escaping of the reserved characters
EscapeChar(c) ==
    CASE c = "&" -> "&amp;"
      [] c = "<" -> "&lt;"
      [] c = ">" -> "&gt;"
      [] c = "\"" -> "&quot;"
      [] OTHER -> c

EscapeText(t) ==
    IF t = None THEN None ELSE [k \in 1..Len(t) |-> EscapeChar(t[k])]

TextListFields == {"highlights", "keywords", "courses"}

RecordListFields == {"location", "profiles"}

RECURSIVE EscapeEntry(_)
EscapeEntry(e) ==
    [f \in DOMAIN e |->
        IF f \in TextListFields
        THEN [k \in 1..Len(e[f]) |-> EscapeText(e[f][k])]
        ELSE IF f \in RecordListFields
        THEN [k \in 1..Len(e[f]) |-> EscapeEntry(e[f][k])]
        ELSE EscapeText(e[f])]

\* the resume with every free-text field escaped
EscapeResume(res) ==
    [s \in DOMAIN res |-> [k \in 1..Len(res[s]) |-> EscapeEntry(res[s][k])]]

\* what one generate call composes, all twelve steps
Composed(fmt, res, theme) ==
    Flatten([k \in 1..Len(SectionOrder) |->
                generate_step(fmt, res, theme, SectionOrder[k]).blocks])

\* C7: the text of every block that is handed to the output library as
\* markup (a reportlab Paragraph) is the composition of the escaped field
\* texts: a reserved character of a field is escaped before the renderer's
\* markup is put around it.
C7_FieldsEscapedBeforeMarkup ==
    \A i \in Inst : gen[i].status = "done" =>
        LET e == Emitted(gen[i])
            x == Composed(gen[i].fmt, EscapeResume(resume), gen[i].theme)
        IN  \A k \in 1..Len(e) :
                e[k].kind = "Paragraph" => e[k].text = x[k].text

\* C8: the file at an output path changes only in the serialization step of
\* a generate call, which comes after the twelve building steps, and a call
\* that ends with an error leaves no complete document there.
C8_NoPartialOutput ==
    [][\A p \in OutPaths :
          files'[p] # files[p] =>
              \E i \in Inst :
                  /\ gen[i].pc = SavePc
                  /\ gen[i].path = p
                  /\ gen'[i].pc = 0
                  /\ gen'[i].status = "raised" => files'[p].state # "complete"
      ]_vars

C8_Witness ==
    \E i \in Inst :
        /\ gen[i].status = "raised"
        /\ files[gen[i].path].state = "truncated"
        /\ Len(gen[i].doc) > 0

\* C9: a constructed renderer holds the bundle of its preset when its style
\* is one of the four preset names and the professional bundle otherwise.
C9_ThemeLookupTotal ==
    \A i \in Inst : gen[i].alive =>
        gen[i].theme =
            STYLES(gen[i].fmt)[IF gen[i].style \in PresetNames
                               THEN gen[i].style ELSE "professional"]

C9_Witness ==
    \E i \in Inst :
        /\ gen[i].alive
        /\ gen[i].style = "fancy"
        /\ gen[i].fmt = "docx"
        /\ gen[i].theme.accent_color = "#3498db"
        /\ gen[i].theme.font_name = "Calibri"

\* the text None, which formatting an absent field would leave
HasPlaceholder(b) ==
    \E k \in 1..Len(BlockText(b)) : BlockText(b)[k] = "None"

\* C10: whatever fields are absent and whatever lists are empty, no building
\* step raises and no composed text holds a placeholder for an absent field.
C10_MissingFieldsTolerated ==
    \A i \in Inst :
        /\ env = "healthy" => gen[i].status # "raised"
        /\ \A k \in 1..Len(Emitted(gen[i])) : ~HasPlaceholder(Emitted(gen[i])[k])

C10_Witness ==
    \E i \in Inst :
        /\ gen[i].status = "done"
        /\ Len(resume.work) = 2
        /\ resume.work[1].name = None
        /\ resume.work[2].position = None
        /\ Len(Emitted(gen[i])) > 3

(***************************************************************************)
(* Properties of the link helpers                                          *)
(***************************************************************************)
\* the URL prefix of each network name the resolver is to know, by the
\* lower-case name without surrounding whitespace
ProfileUrlPrefix ==
    ("github" :> "https://github.com/")
      @@ ("linkedin" :> "https://linkedin.com/in/")
      @@ ("twitter" :> "https://twitter.com/")
      @@ ("youtube" :> "https://youtube.com/@")
      @@ ("google scholar" :> "https://scholar.google.com/citations?user=")
      @@ ("orcid" :> "https://orcid.org/")

NetworkKey(network) == StrOf(lower(strip(network)))

CalledMethod(name) == mname = name /\ mout # NoOutcome

\* C11: _get_profile_url(network, username) with a known network name, in
\* any letter case and with surrounding whitespace, returns the URL of that
\* network for the username.
C11_ProfileUrlResolved ==
    (CalledMethod("_get_profile_url")
       /\ NetworkKey(margs[1]) \in DOMAIN ProfileUrlPrefix)
        => mout = Returned(<<ProfileUrlPrefix[NetworkKey(margs[1])]>>
                              \o margs[2])

\* C12: _get_profile_url(network, username) with a network name that is not
\* in the table returns None and raises nothing.
C12_UnknownNetworkAbsent ==
    (CalledMethod("_get_profile_url")
       /\ NetworkKey(margs[1]) \notin DOMAIN ProfileUrlPrefix)
        => mout = Returned(None)

\* t holds the pieces of part, in order and next to each other
Contains(t, part) ==
    \E k \in 0..(Len(t) - Len(part)) : SubSeq(t, k + 1, k + Len(part)) = part

\* C13: _make_link(url, text) on the page renderer returns a link construct
\* that holds the url as target, the accent colour of the selected theme and
\* the text unchanged inside it.
C13_LinkMarkup ==
    (CalledMethod("_make_link") /\ mrecv.fmt = "pdf") =>
        /\ mout.raised = ""
        /\ mout.value # None
        /\ \E k \in 1..Len(mout.value) :
              /\ Contains(SubSeq(mout.value, 1, k - 1), margs[1])
              /\ Contains(SubSeq(mout.value, 1, k - 1),
                          <<theme_for("pdf", mrecv.style).accent_color>>)
              /\ Contains(SubSeq(mout.value, k, Len(mout.value)), margs[2])

(***************************************************************************)
(* Properties of the convert command                                       *)
(***************************************************************************)
Echoed(msg) == \E k \in 1..Len(cli.echoed) : cli.echoed[k] = msg

\* C14: in a convert run the directory of the output path and every missing
\* directory above it exist from the end of the creation step on, which is
\* before the renderer is constructed and generate is called, and a
\* generation that nothing else fails writes the file there.
C14_DirectoryCreatedFirst ==
    /\ (cli.pc \in {"construct", "call", "in_generate"} \/ gen["g1"].alive)
          => Prefixes(cli.output_file.parent) \subseteq dirs
    /\ (env = "healthy" /\ gen["g1"].alive /\ gen["g1"].status \in {"done", "raised"})
          => /\ gen["g1"].status = "done"
             /\ files[cli.output_file].state = "complete"

C14_Witness ==
    /\ cli.pc = "exit"
    /\ cli.exit_code = 0
    /\ cli.output_file.parent = <<"new", "deep">>
    /\ <<"new">> \in dirs
    /\ files[cli.output_file].state = "complete"

\* C15: a generate call in which a building step or the serialization
\* raised is over without having written a document, and the convert run
\* around it ends with the error message and status 1, without the success
\* message.
C15_ErrorsSurfaced ==
    gen["g1"].status = "raised" =>
        /\ gen["g1"].pc = 0
        /\ written = <<>>
        /\ files[cli.output_file].state # "complete"
        /\ cli.pc \in {"in_generate", "exit"}
        /\ ~Echoed("Successfully generated")
        /\ cli.pc = "exit" =>
              /\ cli.exit_code = 1
              /\ cli.echoed[Len(cli.echoed)]
                    = (IF gen["g1"].fmt = "pdf" THEN "Error generating PDF"
                       ELSE "Error generating DOCX")

C15_Witness ==
    /\ cli.pc = "exit"
    /\ gen["g1"].status = "raised"
    /\ gen["g1"].fmt = "docx"
    /\ Len(gen["g1"].doc) > 0
    /\ cli.exit_code = 1

\* the input is missing, is not JSON or is not a resume
BadInput == cli.input.kind \in {"missing", "not_json", "invalid"}

\* no --format and an output suffix that is neither .pdf nor .docx in any
\* letter case
BadSuffix ==
    /\ cli.format = <<>>
    /\ StrOf(cli.output_file.suffix) \notin {".pdf", ".PDF", ".docx", ".Docx"}

\* C17: with a bad input or an undeterminable format the run never
\* constructs or calls a renderer and never prints the success message, and
\* it ends with a status that is not 0; a run whose generate call succeeds
\* ends with status 0 and the complete output file.
C17_ConvertExitStatus ==
    /\ cli.pc # "off"
    /\ (BadInput \/ BadSuffix) =>
          /\ ~gen["g1"].alive
          /\ ncalls = 0
          /\ ~Echoed("Successfully generated")
          /\ cli.pc = "exit" => cli.exit_code > 0
    /\ (cli.pc = "exit" /\ gen["g1"].status = "done") =>
          /\ cli.exit_code = 0
          /\ files[cli.output_file].state = "complete"

C17_Witness ==
    /\ cli.pc = "exit"
    /\ cli.input.kind = "invalid"
    /\ ~BadSuffix
    /\ cli.exit_code = 1
    /\ cli.echoed = <<"Error: Invalid JSON Resume format:",
                      "  - work.0.name: Input should be a valid string",
                      "  - skills: Input should be a valid list">>

\* C18: without --format the renderer constructed is the PDF one for a
\* suffix .pdf and the DOCX one for a suffix .docx, in any letter case;
\* with --format it is the one the option names, whatever the suffix.
C18_FormatSelection ==
    /\ cli.pc # "start" =>
          /\ cli.format # <<>> => cli.output_format = cli.format
          /\ (cli.format = <<>>
                /\ StrOf(cli.output_file.suffix) \in {".pdf", ".PDF"})
                 => cli.output_format = <<"pdf">>
          /\ (cli.format = <<>>
                /\ StrOf(cli.output_file.suffix) \in {".docx", ".Docx"})
                 => cli.output_format = <<"docx">>
    /\ gen["g1"].alive =>
          /\ cli.output_format # <<>>
          /\ gen["g1"].fmt = cli.output_format[1]

C18_Witness ==
    /\ gen["g1"].alive
    /\ cli.format = <<>>
    /\ StrOf(cli.output_file.suffix) = ".PDF"
    /\ gen["g1"].fmt = "pdf"
    /\ gen["g1"].status = "done"

(***************************************************************************)
(* The resume is read only                                                 *)
(***************************************************************************)
\* C16: no step of a renderer, in its construction or in any generate
\* call, changes a field or a list of the resume it was given.
C16_ResumeNotMutated == [][resume' = resume]_vars

C16_Witness ==
    /\ ncalls = 2
    /\ gen["g1"].status = "done"
    /\ Len(written) = 2
    /\ Len(resume.work) = 2
    /\ resume.work[1] # resume.work[2]

(***************************************************************************)
(* The two renderers side by side                                          *)
(***************************************************************************)
\* the text of a block without the bold markup of the page renderer
PlainText(b) ==
    StrOf(SelectSeq(BlockText(b), LAMBDA c : c \notin {"<b>", "</b>"}))

\* the plain texts of the text blocks of a document, in order
PlainTexts(blocks) ==
    LET texts == SelectSeq(blocks, IsTextBlock)
    IN  [k \in 1..Len(texts) |-> PlainText(texts[k])]

OtherFormat(fmt) == IF fmt = "pdf" THEN "docx" ELSE "pdf"

\* C19: the text blocks a renderer composes for a resume are, in order and
\* without spacers, divider and styling, those the renderer of the other
\* format composes for the same resume.
C19_SameContentBothFormats ==
    \A i \in Inst : gen[i].status = "done" =>
        PlainTexts(Emitted(gen[i]))
            = PlainTexts(Composed(OtherFormat(gen[i].fmt), resume,
                                  theme_for(OtherFormat(gen[i].fmt),
                                            gen[i].style)))

\* C20: in both renderers an education entry with courses has the line
\* "Courses: " followed by the courses joined by ", " among its blocks, and
\* an entry without courses has no line that starts with "Courses: ".
C20_CoursesLine ==
    \A i \in Inst : gen[i].status = "done" =>
        \A k \in 1..Len(resume.education) :
            LET lines == { n \in 1..Len(Emitted(gen[i])) :
                             /\ Emitted(gen[i])[n].sec = "education"
                             /\ Emitted(gen[i])[n].entry = k
                             /\ IsTextBlock(Emitted(gen[i])[n])
                             /\ BlockText(Emitted(gen[i])[n]) # <<>>
                             /\ Head(BlockText(Emitted(gen[i])[n]))
                                   = "Courses: " }
            IN  IF Len(resume.education[k].courses) > 0
                THEN /\ Cardinality(lines) = 1
                     /\ \A n \in lines :
                           BlockText(Emitted(gen[i])[n])
                              = <<"Courses: ">>
                                  \o join(", ", resume.education[k].courses)
                ELSE lines = {}

(***************************************************************************)
(* Properties of the lines of one entry                                    *)
(***************************************************************************)
\* the texts of the text blocks built for entry k of a section, in order
EntryTexts(blocks, sec, k) ==
    LET mine(b) == b.sec = sec /\ b.entry = k /\ IsTextBlock(b)
        texts == SelectSeq(blocks, mine)
    IN  [n \in 1..Len(texts) |-> BlockText(texts[n])]

\* 1 for a present field, 0 for an absent one
Count(x) == IF Truthy(x) THEN 1 ELSE 0

\* C21: in both renderers the lines of a project entry with a URL end with
\* the URL as a line of its own, after the highlights, and a project entry
\* without a URL has no line beyond its name, date range, description and
\* highlights.
C21_ProjectUrlLine ==
    \A i \in Inst : gen[i].status = "done" =>
        \A k \in 1..Len(resume.projects) :
            LET p == resume.projects[k]
                t == EntryTexts(Emitted(gen[i]), "projects", k)
                before == Count(p.name)
                            + Count(format_date_range(p.startDate, p.endDate))
                            + Count(p.description) + Len(p.highlights)
            IN  IF Truthy(p.url)
                THEN Len(t) = before + 1 /\ t[Len(t)] = p.url
                ELSE Len(t) = before

\* the blocks built for entry k of a section, in order, spacers left out
EntryBlocks(blocks, sec, k) ==
    LET mine(b) == b.sec = sec /\ b.entry = k /\ IsTextBlock(b)
    IN  SelectSeq(blocks, mine)

\* the part of a text that is set in bold: what is between <b> and </b> in
\* the markup of a Paragraph, the bold runs of a python-docx paragraph
BoldText(b) ==
    IF b.kind = "paragraph"
    THEN LET bold(r) == r.bold
             runs == SelectSeq(b.runs, bold)
         IN  Flatten([k \in 1..Len(runs) |-> runs[k].text])
    ELSE IF \E m, n \in 1..Len(b.text) :
                m < n /\ b.text[m] = "<b>" /\ b.text[n] = "</b>"
    THEN LET m == CHOOSE m \in 1..Len(b.text) : b.text[m] = "<b>"
             n == CHOOSE n \in 1..Len(b.text) : b.text[n] = "</b>"
         IN  SubSeq(b.text, m + 1, n - 1)
    ELSE <<>>

\* C22: in both renderers a skill entry with a name has exactly one line,
\* the name in bold, then " (<level>)" when there is a level, then ": " and
\* the keywords joined by ", " when there are keywords; a skill entry without
\* a name has no line at all, not even an empty paragraph.
C22_SkillsLine ==
    \A i \in Inst : gen[i].status = "done" =>
        \A k \in 1..Len(resume.skills) :
            LET s == resume.skills[k]
                b == EntryBlocks(Emitted(gen[i]), "skills", k)
            IN  IF Truthy(s.name)
                THEN /\ Len(b) = 1
                     /\ BoldText(b[1]) = s.name
                     /\ PlainText(b[1])
                           = StrOf(s.name
                                \o (IF Truthy(s.level)
                                    THEN <<" (">> \o s.level \o <<")">>
                                    ELSE <<>>)
                                \o (IF Len(s.keywords) > 0
                                    THEN <<": ">> \o join(", ", s.keywords)
                                    ELSE <<>>))
                ELSE Len(b) = 0

\* a block set as the title of an entry
IsTitleBlock(b) ==
    IF b.kind = "paragraph"
    THEN Len(b.runs) = 1 /\ b.runs[1].bold /\ b.runs[1].size = 11
    ELSE b.style = "ItemTitle"

\* "<first> at <second>", or the half that is there
TitleText(first, second) ==
    IF Truthy(first) /\ Truthy(second)
    THEN StrOf(first) \o " at " \o StrOf(second)
    ELSE IF Truthy(first) THEN StrOf(first)
    ELSE "at " \o StrOf(second)

\* the title of entry k of the blocks is as the fields first and second say,
\* and it comes before the date range
TitleLineOk(blocks, sec, k, first, second, date_range) ==
    LET b == EntryBlocks(blocks, sec, k)
        titles == { n \in 1..Len(b) : IsTitleBlock(b[n]) }
    IN  /\ IF Truthy(first) \/ Truthy(second)
           THEN /\ titles = {1}
                /\ StrOf(BlockText(b[1])) = TitleText(first, second)
           ELSE titles = {}
        /\ Truthy(date_range) =>
              \E n \in 1..Len(b) :
                  /\ BlockText(b[n]) = date_range
                  /\ \A t \in titles : t < n

\* C23: in both renderers the title of a work entry is "<position> at
\* <name>" (of a volunteer entry "<position> at <organization>") when both
\* fields are present, the position alone or "at <name>" alone when the
\* other field is missing, and there is no title line when both are missing;
\* the title line comes before the line of the date range.
C23_TitleLine ==
    \A i \in Inst : gen[i].status = "done" =>
        /\ \A k \in 1..Len(resume.work) :
              TitleLineOk(Emitted(gen[i]), "work", k, resume.work[k].position,
                          resume.work[k].name,
                          format_date_range(resume.work[k].startDate,
                                            resume.work[k].endDate))
        /\ \A k \in 1..Len(resume.volunteer) :
              TitleLineOk(Emitted(gen[i]), "volunteer", k,
                          resume.volunteer[k].position,
                          resume.volunteer[k].organization,
                          format_date_range(resume.volunteer[k].startDate,
                                            resume.volunteer[k].endDate))

C23_Witness ==
    \E i \in Inst :
        /\ gen[i].status = "done"
        /\ gen[i].fmt = "docx"
        /\ Len(resume.volunteer) = 1
        /\ resume.volunteer[1].position = None
        /\ resume.volunteer[1].organization = T_Acme
        /\ resume.volunteer[1].startDate = T_2019
        /\ TextBlocks(Emitted(gen[i]))
              = <<"VOLUNTEER", "at Acme", "2019 - Present">>

(***************************************************************************)
(* Properties of the header                                                *)
(***************************************************************************)
\* the resume of the scenario: one job and nothing else
OnlyWorkResume ==
    [EmptyResume EXCEPT
        !.work = <<[name |-> T_Acme, position |-> T_Eng, url |-> None,
                    startDate |-> T_2020_01, endDate |-> None,
                    summary |-> None, highlights |-> <<>>]>>]

\* C24: for a resume without basics no renderer composes a block of the
\* header, the divider of the page renderer included; for the resume that
\* has only the job Eng at Acme from 2020-01 the composed text blocks are
\* the heading EXPERIENCE, the line "Eng at Acme" and the line
\* "Jan 2020 - Present", in that order.
C24_NoHeaderWithoutBasics ==
    \A i \in Inst : gen[i].status = "done" =>
        /\ resume.basics = <<>> =>
              \A k \in 1..Len(Emitted(gen[i])) :
                  /\ Emitted(gen[i])[k].sec # "basics"
                  /\ Emitted(gen[i])[k].kind # "HRFlowable"
        /\ resume = OnlyWorkResume =>
              TextBlocks(Emitted(gen[i]))
                  = <<"EXPERIENCE", "Eng at Acme", "Jan 2020 - Present">>

C24_Witness ==
    \E i \in Inst :
        /\ gen[i].status = "done"
        /\ gen[i].fmt = "pdf"
        /\ resume = OnlyWorkResume
        /\ Len(gen[i].story) = 4
        /\ gen[i].story[1].text = <<"EXPERIENCE">>
        /\ files[gen[i].path].state = "complete"

\* what a profile contributes to the profile line, as the texts of a list of
\* no or one element
Contribution(profile) ==
    IF profile.network # None /\ profile.username # None
    THEN <<StrOf(profile.network) \o ": " \o StrOf(profile.username)>>
    ELSE IF profile.url # None THEN <<StrOf(profile.url)>>
    ELSE <<>>

RECURSIVE JoinTexts(_, _)
JoinTexts(sep, texts) ==
    IF Len(texts) = 0 THEN ""
    ELSE IF Len(texts) = 1 THEN texts[1]
    ELSE texts[1] \o sep \o JoinTexts(sep, Tail(texts))

\* the header has nothing but profiles
OnlyProfiles(basics) ==
    /\ \A f \in {"name", "label", "email", "phone", "url", "summary"} :
          basics[f] = None
    /\ basics.location = <<>>

\* C25: in both renderers the profile line of the header is made of
\* "<network>: <username>" for a profile with both fields, of the explicit
\* URL for any other profile that has one, and of nothing for the rest,
\* joined by " | " in the order of the profiles; there is no profile line
\* when no profile contributes.
C25_ProfileLine ==
    \A i \in Inst : (gen[i].status = "done" /\ resume.basics # <<>>) =>
        LET basics == resume.basics[1]
            parts == Flatten([k \in 1..Len(basics.profiles) |->
                                 Contribution(basics.profiles[k])])
            inHeader(b) == b.sec = "basics"
            header == TextBlocks(SelectSeq(Emitted(gen[i]), inHeader))
            lines == { n \in 1..Len(header) :
                          header[n] = JoinTexts(" | ", parts) }
        IN  /\ Len(parts) > 0 => Cardinality(lines) = 1
            /\ OnlyProfiles(basics) =>
                  header = IF Len(parts) > 0
                           THEN <<JoinTexts(" | ", parts)>> ELSE <<>>

C25_Witness ==
    \E i \in Inst :
        /\ gen[i].status = "done"
        /\ gen[i].fmt = "docx"
        /\ resume.basics # <<>>
        /\ resume.basics[1].profiles
              = <<Profile(<<"G", "i", "t">>, T_Ann, T_Url),
                  Profile(<<"G", "i", "t">>, None, T_Url)>>
        /\ TextBlocks(Emitted(gen[i])) = <<"Git: Ann | h://u">>

\* "<who> | <formatted date>", or the half that is there, as a list of no
\* or one text
SubtitleText(who, date) ==
    IF who # None /\ date # None
    THEN <<StrOf(who) \o " | " \o StrOf(_format_date(date))>>
    ELSE IF who # None THEN <<StrOf(who)>>
    ELSE IF date # None THEN <<StrOf(_format_date(date))>>
    ELSE <<>>

\* a field as a list of no or one text
TextIf(x) == IF x # None THEN <<StrOf(x)>> ELSE <<>>

\* the texts of the lines of entry k of a section
EntryLines(blocks, sec, k) ==
    [n \in 1..Len(EntryTexts(blocks, sec, k)) |->
        StrOf(EntryTexts(blocks, sec, k)[n])]

\* C26: in both renderers the subtitle of a certificate, award or
\* publication entry is "<issuer|awarder|publisher> | <formatted date>" when
\* both are present and the present half alone, without " | ", when one is
\* missing; with both missing the entry has no subtitle line.  The subtitle
\* follows the name or title of the entry and precedes its summary.
C26_SubtitleLine ==
    \A i \in Inst : gen[i].status = "done" =>
        /\ \A k \in 1..Len(resume.certificates) :
              LET c == resume.certificates[k]
              IN  EntryLines(Emitted(gen[i]), "certificates", k)
                     = TextIf(c.name) \o SubtitleText(c.issuer, c.date)
        /\ \A k \in 1..Len(resume.awards) :
              LET a == resume.awards[k]
              IN  EntryLines(Emitted(gen[i]), "awards", k)
                     = TextIf(a.title) \o SubtitleText(a.awarder, a.date)
                          \o TextIf(a.summary)
        /\ \A k \in 1..Len(resume.publications) :
              LET p == resume.publications[k]
              IN  EntryLines(Emitted(gen[i]), "publications", k)
                     = TextIf(p.name)
                          \o SubtitleText(p.publisher, p.releaseDate)
                          \o TextIf(p.summary)

C26_Witness ==
    \E i \in Inst :
        /\ gen[i].status = "done"
        /\ gen[i].fmt = "docx"
        /\ Len(resume.awards) = 1
        /\ resume.awards[1].title = None
        /\ TextBlocks(Emitted(gen[i])) = <<"AWARDS", "R&D | Jan 2020">>

(***************************************************************************)
(* Properties of blank entries                                             *)
(***************************************************************************)
\* C27: in both renderers a section whose only entry has no renderable
\* field has its heading among the composed blocks, and the heading is
\* followed by a block of that section which holds no text: the section is
\* not left out and the entry leaves a blank block behind.
C27_BlankEntryKept ==
    \A i \in Inst : gen[i].status = "done" =>
        \A s \in ListSections :
            resume[s] = <<BlankEntries[s]>> =>
                LET e == Emitted(gen[i])
                IN  \E h \in 1..Len(e) :
                        /\ BlockText(e[h]) = <<Heading[s]>>
                        /\ \E n \in (h + 1)..Len(e) : e[n].sec = s
                        /\ \A n \in (h + 1)..Len(e) :
                              e[n].sec = s => StrOf(BlockText(e[n])) = ""

(***************************************************************************)
(* Properties of two renderers side by side in time                        *)
(***************************************************************************)
\* what the first n building steps of one generate call compose
ComposedUpTo(fmt, res, theme, n) ==
    Flatten([k \in 1..n |->
                generate_step(fmt, res, theme, SectionOrder[k]).blocks])

\* C28: with two renderers whose steps interleave in any order, each
\* renderer holds the theme of its own style and format, and the blocks of
\* its generate call are at every step those it composes when it runs
\* alone: the blocks of its own steps so far, and all of them at the end.
C28_InstancesIndependent ==
    \A i \in Inst : gen[i].alive =>
        /\ gen[i].theme = theme_for(gen[i].fmt, gen[i].style)
        /\ gen[i].pc > 0 =>
              Emitted(gen[i])
                 = ComposedUpTo(gen[i].fmt, resume, gen[i].theme,
                                gen[i].pc - 1)
        /\ gen[i].status = "done" =>
              Emitted(gen[i])
                 = ComposedUpTo(gen[i].fmt, resume, gen[i].theme,
                                Len(SectionOrder))

C28_Witness ==
    /\ gen["g1"].fmt = "docx" /\ gen["g2"].fmt = "docx"
    /\ gen["g1"].style # gen["g2"].style
    /\ gen["g1"].pc = 7 /\ gen["g2"].pc = 3
    /\ Len(gen["g1"].doc) > Len(gen["g2"].doc)
    /\ Len(gen["g2"].doc) > 0
    /\ gen["g1"].theme # gen["g2"].theme

(***************************************************************************)
(* Properties of the order of the sections                                 *)
(***************************************************************************)
\* the headings in the order in which the sections are to appear
HeadingsInOrder ==
    <<"EXPERIENCE", "EDUCATION", "SKILLS", "PROJECTS", "CERTIFICATES",
      "AWARDS", "PUBLICATIONS", "VOLUNTEER", "LANGUAGES", "INTERESTS",
      "REFERENCES">>

\* a block set as the heading of a section
IsHeadingBlock(b) ==
    IF b.kind = "paragraph"
    THEN Len(b.runs) = 1 /\ b.runs[1].bold /\ b.runs[1].size = 12
    ELSE b.style = "SectionTitle"

\* the texts of the headings among the blocks, in order
HeadingsOf(blocks) == TextBlocks(SelectSeq(blocks, IsHeadingBlock))

\* the keys of the input object in the order of the input
InputKeys == [k \in 1..Len(cli.input.data) |-> cli.input.data[k][1]]

\* C29: whatever the order of the keys in the input, a renderer of either
\* format composes the header first, when there is one, and then the
\* sections under the headings EXPERIENCE, EDUCATION, SKILLS, PROJECTS,
\* CERTIFICATES, AWARDS, PUBLICATIONS, VOLUNTEER, LANGUAGES, INTERESTS,
\* REFERENCES in this order, every block of a section before the heading of
\* the next.
C29_FixedSectionOrder ==
    gen["g1"].status = "done" =>
        LET e == Emitted(gen["g1"])
            present(h) == \E s \in ListSections :
                              Heading[s] = h /\ Len(resume[s]) > 0
        IN  /\ HeadingsOf(e) = SelectSeq(HeadingsInOrder, present)
            /\ \A j, k \in 1..Len(e) :
                  (j < k /\ e[k].sec = "basics") => e[j].sec = "basics"
            /\ \A j, k \in 1..Len(e) :
                  (j < k /\ IsHeadingBlock(e[j]) /\ e[k].sec = e[j].sec)
                      => \A n \in j..k : e[n].sec = e[j].sec

C29_Witness ==
    /\ gen["g1"].status = "done"
    /\ gen["g1"].fmt = "docx"
    /\ Len(InputKeys) = 12
    /\ InputKeys[1] = "projects" /\ InputKeys[2] = "references"
    /\ HeadingsOf(Emitted(gen["g1"])) = HeadingsInOrder
    /\ Emitted(gen["g1"])[1].sec = "basics"

(***************************************************************************)
(* Properties of the steps of the convert command                          *)
(***************************************************************************)
\* the steps of a run and what may follow each
StepsInOrder ==
    { <<"start", "read">>, <<"read", "validate">>, <<"validate", "mkdir">>,
      <<"mkdir", "construct">>, <<"construct", "call">>,
      <<"call", "in_generate">> }
      \cup { <<pc, "exit">> : pc \in {"start", "read", "validate", "mkdir",
                                      "construct", "in_generate"} }

\* the run has stopped in format selection, input read or validation
StoppedEarly ==
    /\ cli.pc = "exit"
    /\ BadSuffix \/ cli.input.kind # "valid"

\* C30: the steps of a convert run follow one another in the order format
\* selection, input read, validation, directory creation, generation; a
\* directory is created only in the directory-creation step and a file is
\* written only during generation, so a run that stops in format selection,
\* input read or validation has constructed no renderer and has created
\* neither the output directory nor the output file.
C30_FailedRunLeavesNoTrace ==
    /\ [](StoppedEarly =>
             /\ cli.exit_code = 1
             /\ ~gen["g1"].alive
             /\ files[cli.output_file] = NoFile
             /\ cli.output_file.parent = <<"new", "deep">> =>
                   cli.output_file.parent \notin dirs)
    /\ [][/\ cli'.pc # cli.pc => <<cli.pc, cli'.pc>> \in StepsInOrder
          /\ dirs' # dirs => cli.pc = "mkdir"
          /\ files' # files => cli.pc = "in_generate"
          /\ gen' # gen => cli.pc \in {"construct", "call", "in_generate"}
         ]_vars

C30_Witness ==
    /\ cli.pc = "exit"
    /\ cli.exit_code = 1
    /\ cli.input.kind = "not_json"
    /\ cli.output_format = <<"pdf">>
    /\ cli.output_file.parent = <<"new", "deep">>
    /\ <<"new">> \notin dirs
    /\ files[cli.output_file] = NoFile

====
